---- MODULE Spec2Model ----
(***************************************************************************)
(* LanMeet server: the session manager (server/session_manager.py) and the *)
(* control server's per-connection protocol state machine                  *)
(* (server/control_server.py), with the heartbeat watcher, the admin       *)
(* force_disconnect task and the audio/video relay registrations.          *)
(*                                                                         *)
(* Scheduling: one asyncio event loop.  A task runs without interruption   *)
(* from one suspension point to the next.  asyncio.Lock is never held      *)
(* across an await in session_manager.py, so acquiring it never suspends;  *)
(* the suspension points are reader.read, writer.drain, asyncio.sleep and  *)
(* asyncio.gather (broadcast and send_to gather only when something was    *)
(* queued).  The variable cpu names the task that has not suspended since  *)
(* its last step: while it is set, no other task takes a step.             *)
(***************************************************************************)
EXTENDS Integers, Sequences, FiniteSets, TLC

\* ------------------------------------------------------------ bounds
MaxConns == 2
MaxSockets == 3
MaxWatches == 2
MaxClock == 2
MaxLeaves == 2
MaxEvents == 5
MaxChat == 1
MaxTicks == 3
MaxOverflow == 2
MaxMessages == 2
MaxBuffered == 2
MaxPending == 1
LongText == 210

\* ------------------------------------------------- program constants
HEARTBEAT_TIMEOUT == 30
CHAT_HISTORY_LIMIT == 200
MIN_DURATION_SECONDS == 60
READ_SIZE == 4096
MAX_BUFFER_FRAMES == 10
SECONDS_PER_MINUTE == 60
EVENT_LOG_LIMIT == 1000

\* ------------------------------------------------------- vocabulary
Users == {"alice", "bob"}
Ghost == "ghost"
Names == Users \cup {Ghost}
None == "none"
Conns == 1..MaxConns

\* the connections the server can have accepted; the ones beyond Conns send
\* a HELLO only where the larger session is looked at
Sockets == 1 .. MaxSockets
Addrs == {"udp1", "udp2", "udp3"}
\* the address the media clients of a session specification send from
SessionAddrs == {"udp1"}
ClockStep == HEARTBEAT_TIMEOUT

NoTask == <<>>
ConnTask(c) == <<"conn", c>>
FdTask == <<"fd">>
HbTask == <<"hb">>

VARIABLES
    clients,         \* SessionManager._clients: username -> ConnectedClient
    presenter,       \* SessionManager._presenter
    event_log,       \* SessionManager._event_log
    banned,          \* SessionManager._banned_usernames
    presence_cache,  \* SessionManager._presence_cache
    chat_history,    \* SessionManager._chat_history
    writer_closed,   \* per connection: StreamWriter.close() was called
    conn,            \* per connection: position and locals of _handle_client
    fd,              \* the force_disconnect task: position, target, last result
    hb,              \* the heartbeat_watcher task: position and its stale list
    now,             \* time.monotonic() and time.time(), in seconds
    time_limit,      \* SessionManager._time_limit_*, and the last status returned
    stream,          \* one control connection: frames sent, bytes, reader buffer
    media,           \* one media datagram: header built, bytes, header unpacked
    screen,          \* one screen relay connection: position and username
    audio,           \* AudioServer._buffers and the _enqueue tasks not yet run
    udp,             \* the datagrams the last step sent from a relay
    shutdown,        \* the disconnect_all call of the shutdown: position, writers closed
    failing,         \* the connections whose writer.write raises
    app,             \* the client application: session, reconnect and time limit watch
    cpu,             \* the task that has not suspended since its last step
    wire,            \* the last step's broadcast, send_to or direct write
    video_clients,   \* VideoServer._clients: address -> username
    audio_clients    \* AudioServer._clients: address -> username

sm_vars == <<clients, presenter, event_log, banned, presence_cache, chat_history>>
relay_vars == <<video_clients, audio_clients>>
vars == <<clients, presenter, event_log, banned, presence_cache, chat_history,
          writer_closed, conn, fd, hb, now, time_limit, stream, media, screen, audio, udp, shutdown, failing, app, cpu, wire, video_clients,
          audio_clients>>

\* ------------------------------------------------------------ helpers
Connected == DOMAIN clients

Free(t) == cpu = NoTask \/ cpu = t

\* dict.pop(key, None)
Pop(f, k) == [x \in (DOMAIN f) \ {k} |-> f[x]]

\* dict[key] = value
Put(f, k, v) == [x \in (DOMAIN f) \cup {k} |-> IF x = k THEN v ELSE f[x]]

Event(type, username) == [type |-> type, username |-> username]

NoRaw == [islist |-> FALSE, items |-> <<>>]

\* one call that writes a control message: the call, the message (action, the
\* username it is about, the usernames it lists, for a chat message the
\* recipients field as received) and the writers it was written to
\* (history is the chat history a WELCOME carries, reason the reason of the
\* KICKED of a shutdown)
Call(call, to, action, about, list, raw) ==
    [call |-> call, to |-> to, action |-> action, about |-> about,
     list |-> list, raw |-> raw, history |-> << >>, reason |-> None]

NoWire == Call("none", {}, None, None, {}, NoRaw)

\* a write that reaches every connection
WriteToEveryone(c, action, about, list) ==
    Call("write", Conns, action, about, list, NoRaw)

\* writer.write / client.send on one connection
Write(c, action, about, list) == Call("write", {c}, action, about, list, NoRaw)

\* a handler that has returned, with the exception it logged, if any
Closed(error) ==
    [pc |-> "closed", username |-> None, held |-> {}, raw |-> NoRaw,
     sender |-> None, error |-> error]

ClosedConn == Closed(None)

\* a handler waiting for the first frame
IdleConn ==
    [pc |-> "hello", username |-> None, held |-> {}, raw |-> NoRaw,
     sender |-> None, error |-> None]

\* ------------------------------------------------- SessionManager
\* _record_event: append, then drop the oldest entry beyond the limit
RecordEvent(log, type, username) ==
    LET l == Append(log, Event(type, username))
    IN IF Len(l) > EVENT_LOG_LIMIT THEN Tail(l) ELSE l

\* _client_presence_payload
ClientPresencePayload(client) == [is_presenter |-> client.is_presenter]

NewClient(w) == [writer |-> w, last_seen |-> now, is_presenter |-> FALSE]

\* register without the test for a connected username
RegisterNoDuplicateTest(u) == IF u \in banned THEN "banned" ELSE "ok"

\* register without the test for a banned username
RegisterNoBanTest(u) == IF u \in DOMAIN clients THEN "duplicate" ELSE "ok"

\* register: "ok", "duplicate" (ValueError) or "banned" (PermissionError)
RegisterOutcome(u) ==
    IF u \in DOMAIN clients THEN "duplicate"
    ELSE IF u \in banned THEN "banned"
    ELSE "ok"

\* register, on the path that creates the client
RegisterClients(u, w) == Put(clients, u, NewClient(w))

\* unregister that records its event before looking for the client
UnregisterRecordsFirst(u, event_type) ==
    [removed |-> u \in DOMAIN clients,
     clients |-> Pop(clients, u),
     presenter |-> IF presenter = u THEN None ELSE presenter,
     presence_cache |-> Pop(presence_cache, u),
     closed |-> {clients[v].writer : v \in {u} \cap DOMAIN clients},
     event_log |-> RecordEvent(event_log, event_type, u)]

\* unregister without the early return for a username that is not connected
UnregisterNoEarlyReturn(u, event_type) ==
    [removed |-> TRUE,
     clients |-> Pop(clients, u),
     presenter |-> IF presenter = u THEN None ELSE presenter,
     presence_cache |-> Pop(presence_cache, u),
     closed |-> {clients[v].writer : v \in {u} \cap DOMAIN clients},
     event_log |-> RecordEvent(event_log, event_type, u)]

\* unregister: the values it leaves behind and its return value
Unregister(u, event_type) ==
    IF u \notin DOMAIN clients
    THEN [removed |-> FALSE, clients |-> clients, presenter |-> presenter,
          presence_cache |-> presence_cache, closed |-> {},
          event_log |-> event_log]
    ELSE [removed |-> TRUE,
          clients |-> Pop(clients, u),
          presenter |-> IF presenter = u THEN None ELSE presenter,
          presence_cache |-> Pop(presence_cache, u),
          closed |-> {clients[u].writer},
          event_log |-> RecordEvent(event_log, event_type, u)]

\* broadcast that stops at the first client whose send raises (the clients
\* are taken in the order of their writers)
BroadcastAborting(cl, action, about, list, raw, exclude) ==
    LET targets == {cl[u].writer : u \in (DOMAIN cl) \ exclude}
    IN Call("broadcast",
            {w \in targets : \A v \in targets \cap failing : w < v},
            action, about, list, raw)

\* broadcast: the message is queued to every client of cl not excluded whose
\* send does not raise
Broadcast(cl, action, about, list, raw, exclude) ==
    Call("broadcast", {cl[u].writer : u \in (DOMAIN cl) \ exclude} \ failing,
         action, about, list, raw)

\* send_to that queues the message to every client
SendToEveryone(cl, u, action, about, list, raw) ==
    Call("send_to", {cl[v].writer : v \in DOMAIN cl}, action, about, list, raw)

\* send_to: the message is queued to u if connected, to nobody otherwise
SendTo(cl, u, action, about, list, raw) ==
    Call("send_to", IF u \in DOMAIN cl THEN {cl[u].writer} \ failing ELSE {},
         action, about, list, raw)

\* broadcast and send_to gather the drains, and so suspend, only if something
\* was queued
Suspends(out) == out.to # {}

\* get_presence_snapshot refreshes the cache entry of every connected client
RefreshedCache(cl, cache) ==
    [u \in (DOMAIN cache) \cup (DOMAIN cl) |->
        IF u \in DOMAIN cl THEN ClientPresencePayload(cl[u]) ELSE cache[u]]

CloseWriters(ws) == [c \in Sockets |-> writer_closed[c] \/ c \in ws]

\* ------------------------------------------------ the time limit
\* Floats are fixed-point numbers: minutes in hundredths, seconds and
\* timestamps in tenths. An Optional[float] is << >> for None and <<x>>
\* for the value x.
Absent == << >>

Some(x) == <<x>>

Max(a, b) == IF a >= b THEN a ELSE b

\* float(duration_minutes) * 60.0: hundredths of a minute to tenths of a second
MinutesToSeconds(dm) == (dm * SECONDS_PER_MINUTE * 10) \div 100

\* whole seconds to tenths of a second
Seconds(sec) == sec * 10

\* int(round(x)) of a float that is not negative: to the nearest whole
\* second, a tie to the even one
IntRound(x) ==
    LET q == x \div 10
        r == x % 10
    IN IF r < 5 THEN q
       ELSE IF r > 5 THEN q + 1
       ELSE IF q % 2 = 0 THEN q ELSE q + 1

\* the duration without the 60 second minimum
DurationUnfloored(dm) == MinutesToSeconds(dm)

\* max(60.0, float(duration_minutes) * 60.0)
DurationSeconds(dm) == Max(Seconds(MIN_DURATION_SECONDS), MinutesToSeconds(dm))

\* the status of no limit
InactiveStatus(t) ==
    [is_active |-> FALSE, duration_seconds |-> Absent,
     remaining_seconds |-> Absent, end_timestamp |-> Absent,
     started_at |-> Absent, is_expired |-> FALSE, updated_at |-> t]

\* _build_time_limit_status_locked at time t (progress is left out);
\* duration_seconds and remaining_seconds are whole seconds
BuildTimeLimitStatus(tl, t) ==
    IF tl.duration = Absent \/ tl.started = Absent
    THEN InactiveStatus(t)
    ELSE LET duration_seconds == Max(Seconds(1), tl.duration[1])
             end_timestamp ==
                 IF tl.end # Absent /\ tl.end # Some(0)
                 THEN tl.end[1] ELSE tl.started[1] + duration_seconds
             remaining_seconds == Max(0, end_timestamp - t)
         IN [is_active |-> TRUE,
             duration_seconds |-> Some(IntRound(duration_seconds)),
             remaining_seconds |-> Some(IntRound(remaining_seconds)),
             end_timestamp |-> Some(end_timestamp),
             started_at |-> tl.started,
             is_expired |-> remaining_seconds <= 0,
             updated_at |-> t]

NoLimit == [duration |-> Absent, end |-> Absent, started |-> Absent]

\* ------------------------------------------------ shared/protocol.py
\* Bytes are numbers in 0 .. 255. An envelope is a HEARTBEAT with empty data
\* or a CHAT_MESSAGE whose data holds a message of n letters x.
HeartbeatEnvelope == [action |-> "heartbeat", data |-> Absent]

ChatOf(n) == [action |-> "chat_message", data |-> Some(n)]

Envelopes == {HeartbeatEnvelope, ChatOf(0), ChatOf(3), ChatOf(LongText)}

\* {"action":"heartbeat","data":{}}
HeartbeatJson ==
    <<123, 34, 97, 99, 116, 105, 111, 110, 34, 58, 34, 104, 101, 97, 114, 116,
      98, 101, 97, 116, 34, 44, 34, 100, 97, 116, 97, 34, 58, 123, 125, 125>>

\* {"action":"chat_message","data":{"message":"
ChatJsonHead ==
    <<123, 34, 97, 99, 116, 105, 111, 110, 34, 58, 34, 99, 104, 97, 116, 95,
      109, 101, 115, 115, 97, 103, 101, 34, 44, 34, 100, 97, 116, 97, 34, 58,
      123, 34, 109, 101, 115, 115, 97, 103, 101, 34, 58, 34>>

\* "}}
ChatJsonTail == <<34, 125, 125>>

\* json.dumps(envelope, separators=(',', ':')).encode("utf-8")
Dumps(m) ==
    IF m.action = "heartbeat" THEN HeartbeatJson
    ELSE ChatJsonHead \o [i \in 1 .. m.data[1] |-> 120] \o ChatJsonTail

InvalidJson == [action |-> "invalid", data |-> Absent]

\* json.loads(bytes.decode("utf-8")) of the texts above; anything else raises
Loads(b) ==
    LET h == Len(ChatJsonHead)
        t == Len(ChatJsonTail)
        n == Len(b) - h - t
    IN IF b = HeartbeatJson THEN HeartbeatEnvelope
       ELSE IF /\ n >= 0
               /\ SubSeq(b, 1, h) = ChatJsonHead
               /\ SubSeq(b, Len(b) - t + 1, Len(b)) = ChatJsonTail
               /\ \A i \in h + 1 .. h + n : b[i] = 120
            THEN ChatOf(n)
            ELSE InvalidJson

\* struct.pack("!I", n)
Pack32(n) ==
    <<(n \div 16777216) % 256, (n \div 65536) % 256, (n \div 256) % 256, n % 256>>

\* struct.unpack_from("<I", buffer, offset): the 4 bytes read low byte first
Unpack32LittleEndian(b, offset) ==
    b[offset + 1] + 256 * b[offset + 2] + 65536 * b[offset + 3]
        + 16777216 * b[offset + 4]

\* struct.unpack_from("!I", buffer, offset); offset counts from 0
Unpack32(b, offset) ==
    16777216 * b[offset + 1] + 65536 * b[offset + 2] + 256 * b[offset + 3]
        + b[offset + 4]

\* encode_control_message
EncodeControlMessage(m) == Pack32(Len(Dumps(m))) \o Dumps(m)

\* the bytes of a sequence of messages, one frame after the other
RECURSIVE EncodeAll(_)
EncodeAll(ms) ==
    IF ms = << >> THEN << >>
    ELSE EncodeControlMessage(Head(ms)) \o EncodeAll(Tail(ms))

\* the while loop of decode_control_stream from offset on
RECURSIVE DecodeLoop(_, _, _)
DecodeLoop(buffer, offset, messages) ==
    IF offset + 4 <= Len(buffer)
    THEN LET length == Unpack32(buffer, offset)
             start == offset + 4
             end == start + length
         IN IF offset + 4 + length > Len(buffer)
            THEN [messages |-> messages, offset |-> offset, raised |-> FALSE]
            ELSE LET envelope == Loads(SubSeq(buffer, start + 1, end))
                 IN IF envelope = InvalidJson
                    THEN [messages |-> messages, offset |-> offset,
                          raised |-> TRUE]
                    ELSE DecodeLoop(buffer, end, Append(messages, envelope))
    ELSE [messages |-> messages, offset |-> offset, raised |-> FALSE]

\* decode_control_stream: the messages and the remaining buffer
DecodeControlStream(buffer) ==
    LET r == DecodeLoop(buffer, 0, << >>)
    IN [messages |-> r.messages,
        rest |-> SubSeq(buffer, r.offset + 1, Len(buffer)),
        raised |-> r.raised]

\* ------------------------------------- MediaFrameHeader ("!IIfI")
RECURSIVE Pow2(_)
Pow2(n) == IF n = 0 THEN 1 ELSE 2 * Pow2(n - 1)

\* the exponent of the leading bit of x >= 1
RECURSIVE Log2Floor(_)
Log2Floor(x) == IF x < 2 THEN 0 ELSE 1 + Log2Floor(x \div 2)

\* struct.pack "f" of a timestamp that is a whole number of milliseconds
\* and not negative: the IEEE 754 single, 8 bits of exponent and the 24
\* leading bits of x rounded to nearest, a tie to even
Float32Bits(x) ==
    IF x = 0 THEN 0
    ELSE LET e == Log2Floor(x)
         IN IF e <= 23
            THEN (e + 127) * 8388608 + (x * Pow2(23 - e) - 8388608)
            ELSE LET d == Pow2(e - 23)
                     q == x \div d
                     r == x % d
                     up == r > d \div 2 \/ (r = d \div 2 /\ q % 2 = 1)
                     m == IF up THEN q + 1 ELSE q
                 IN (e + 127) * 8388608 + (m - 8388608)

\* struct.unpack "f" of such bits
Float32Value(bits) ==
    IF bits = 0 THEN 0
    ELSE LET e == (bits \div 8388608) - 127
             m == (bits % 8388608) + 8388608
         IN IF e >= 23 THEN m * Pow2(e - 23) ELSE m \div Pow2(23 - e)

\* MediaFrameHeader.pack
PackHeader(h) ==
    Pack32(h.stream_id) \o Pack32(h.sequence_number)
        \o Pack32(Float32Bits(h.timestamp_ms)) \o Pack32(h.payload_type)

\* MediaFrameHeader.unpack
UnpackHeader(data) ==
    [stream_id |-> Unpack32(data, 0),
     sequence_number |-> Unpack32(data, 4),
     timestamp_ms |-> Float32Value(Unpack32(data, 8)),
     payload_type |-> Unpack32(data, 12)]

\* ---------------------------------------------------------- ClientApp
TIME_LIMIT_LEAVE_REASON == "Meeting time limit reached"

Watches == 1 .. MaxWatches

\* no task
NoWatch == 0

\* a task slot that is free
FreeWatch == [pc |-> "none", wake |-> 0]

\* ClientApp.__init__ (the fields that the session, the reconnect worker and
\* the time limit watch read and write), the tasks it has created and the
\* clock time.time() reads
IdleApp ==
    [client |-> FALSE,             \* _client is not None
     connected |-> FALSE,          \* _connected
     username |-> None,            \* _username
     prefill |-> None,             \* _prefill_username
     should_reconnect |-> FALSE,   \* _should_reconnect
     reconnect_task |-> FALSE,     \* _reconnect_task is not None
     worker |-> "none",            \* the task made by _schedule_reconnect
     session |-> "idle",           \* a _start_session of the UI awaiting connect()
     time_limit |-> Absent,        \* _time_limit
     triggered |-> FALSE,          \* _time_limit_exit_triggered
     expiry_task |-> NoWatch,      \* _time_limit_expiry_task
     watches |-> [i \in Watches |-> FreeWatch],
     clock |-> 0,
     leaves |-> 0,                 \* the calls of _leave_session that left
     leave_reason |-> None,        \* the reason of the last of them
     status |-> "idle"]            \* the last session_status sent to the UI

\* the normalized time limit payloads: None, an inactive status, and active
\* ones that end at a given time
StatusInputs ==
    {Absent}
       \cup {Some([is_active |-> a, is_expired |-> x, end |-> e]) :
                a \in BOOLEAN, x \in BOOLEAN, e \in 0 .. MaxClock}

\* _cancel_time_limit_watch, called from the task current (NoWatch: from a
\* task that is no watch)
CancelTimeLimitWatch(a, current) ==
    IF a.expiry_task = NoWatch THEN a
    ELSE IF a.expiry_task = current THEN [a EXCEPT !.expiry_task = NoWatch]
    ELSE [a EXCEPT !.expiry_task = NoWatch,
                   !.watches[a.expiry_task].pc =
                       IF @ \in {"sleep", "expire"} THEN "cancelled" ELSE @]

\* _cancel_reconnect that cancels nothing
CancelNothing(a) == a

\* _cancel_reconnect
CancelReconnect(a) ==
    IF ~a.reconnect_task THEN a
    ELSE [a EXCEPT !.reconnect_task = FALSE,
                   !.worker = IF @ \in {"sleeping", "running"}
                              THEN "cancelled" ELSE @]

\* _schedule_reconnect
ScheduleReconnect(a) ==
    IF ~a.should_reconnect THEN a
    ELSE IF a.reconnect_task /\ a.worker # "none" THEN a
    ELSE [a EXCEPT !.reconnect_task = TRUE, !.worker = "sleeping"]

\* _leave_session, called from the task current: with neither a client nor a
\* connection it returns early
LeaveSession(a, reason, current) ==
    IF ~a.client /\ ~a.connected THEN [a EXCEPT !.status = "idle"]
    ELSE LET b == CancelTimeLimitWatch(
                      CancelReconnect([a EXCEPT !.should_reconnect = FALSE]),
                      current)
         IN [b EXCEPT !.triggered = FALSE, !.client = FALSE,
                      !.connected = FALSE, !.time_limit = Absent,
                      !.prefill = IF a.username # None THEN a.username ELSE @,
                      !.username = None, !.leaves = @ + 1,
                      !.leave_reason = reason, !.status = "idle"]

\* _start_session from the kicked test to the ControlClient it creates
StartSession(a, username, current) ==
    LET b == CancelTimeLimitWatch(
                 CancelReconnect([a EXCEPT !.should_reconnect = TRUE]), current)
    IN [b EXCEPT !.triggered = FALSE, !.time_limit = Absent,
                 !.username = username, !.prefill = username,
                 !.connected = FALSE, !.client = TRUE]

\* _schedule_time_limit_watch: the task it creates takes a free slot
ScheduleTimeLimitWatch(a, status, slot) ==
    LET b == CancelTimeLimitWatch(a, NoWatch)
    IN IF status = Absent \/ ~status[1].is_active
       THEN [b EXCEPT !.triggered = FALSE]
       ELSE IF status[1].is_expired \/ Max(0, status[1].end - b.clock) <= 0
       THEN [b EXCEPT !.expiry_task = slot,
                      !.watches[slot] = [pc |-> "expire", wake |-> b.clock]]
       ELSE [b EXCEPT !.triggered = FALSE,
                      !.expiry_task = slot,
                      !.watches[slot] = [pc |-> "sleep", wake |-> status[1].end]]

\* the done callback of watch i: setattr(self, "_time_limit_expiry_task", None)
WatchDone(a, i) ==
    [a EXCEPT !.expiry_task = NoWatch, !.watches[i] = FreeWatch]

\* _handle_time_limit_expired in watch i, then the task is done
HandleTimeLimitExpired(a, i) ==
    IF a.triggered THEN WatchDone(a, i)
    ELSE LET b == [a EXCEPT !.triggered = TRUE]
         IN IF ~b.connected /\ ~b.client THEN WatchDone(b, i)
            ELSE WatchDone(LeaveSession(b, TIME_LIMIT_LEAVE_REASON, i), i)

AppUnchanged ==
    UNCHANGED <<sm_vars, writer_closed, conn, fd, hb, now, time_limit, stream,
                media, screen, audio, udp, shutdown, failing, cpu, wire,
                relay_vars>>

\* the UI sends join: _start_session runs up to its await of connect()
UiJoin ==
    /\ app.session = "idle"
    /\ app' = [StartSession(app, "alice", NoWatch)
                 EXCEPT !.session = "connecting", !.status = "connecting"]
    /\ AppUnchanged

\* connect() returns
ConnectOk ==
    /\ app.session = "connecting"
    /\ app.worker # "cancelled"
    /\ app' = [app EXCEPT !.connected = TRUE, !.session = "idle",
                          !.status = "connected"]
    /\ AppUnchanged

\* connect() raises: the client is dropped and a reconnect is scheduled
ConnectFails ==
    /\ app.session = "connecting"
    /\ app.worker # "cancelled"
    /\ app' = ScheduleReconnect([app EXCEPT !.client = FALSE,
                                            !.username = None,
                                            !.connected = FALSE,
                                            !.session = "idle",
                                            !.status = "error"])
    /\ AppUnchanged

\* _on_control_disconnect of an established connection
ControlDisconnect ==
    /\ app.session = "idle"
    /\ app.client /\ app.connected
    /\ app.should_reconnect
    /\ app.worker # "cancelled"
    /\ app' = ScheduleReconnect(
                  [CancelTimeLimitWatch([app EXCEPT !.connected = FALSE], NoWatch)
                      EXCEPT !.triggered = FALSE, !.status = "reconnecting"])
    /\ AppUnchanged

\* the UI sends leave_session without a reason
UiLeave ==
    /\ app.session = "idle"
    /\ app.leaves < MaxLeaves
    /\ app' = LeaveSession(app, None, NoWatch)
    /\ AppUnchanged

\* the worker's sleep is over: it returns if no reconnect is wanted or no
\* username is known, otherwise it calls _start_session, which awaits its
\* first status broadcast
WorkerWake ==
    /\ app.worker = "sleeping"
    /\ app' = IF /\ app.should_reconnect
                 /\ (app.username # None \/ app.prefill # None)
              THEN [app EXCEPT !.worker = "running", !.status = "connecting"]
              ELSE [app EXCEPT !.worker = "none", !.reconnect_task = FALSE]
    /\ AppUnchanged

\* the worker's _start_session goes on: _cancel_reconnect cancels the worker
\* itself, so the CancelledError is raised at its next await that suspends,
\* before the client is replaced or, at the latest, in connect()
WorkerStart ==
    /\ app.worker = "running"
    /\ app.session = "idle"
    /\ \E replaced \in BOOLEAN :
          LET u == IF app.username # None THEN app.username ELSE app.prefill
              a == IF replaced
                   THEN StartSession(app, u, NoWatch)
                   ELSE CancelReconnect([app EXCEPT !.should_reconnect = TRUE])
          IN app' = [a EXCEPT !.worker = "none", !.reconnect_task = FALSE]
    /\ AppUnchanged

\* the CancelledError reaches a cancelled worker: its finally block runs
WorkerCancelled ==
    /\ app.worker = "cancelled"
    /\ app' = [app EXCEPT !.worker = "none", !.reconnect_task = FALSE]
    /\ AppUnchanged

\* WELCOME or TIME_LIMIT_UPDATE with a time limit status
OnTimeLimit(status) ==
    /\ app.session = "idle"
    /\ app.client /\ app.connected
    /\ \E slot \in Watches :
          /\ app.watches[slot].pc = "none"
          /\ \A j \in Watches : app.watches[j].pc = "none" => slot <= j
          /\ app' = [ScheduleTimeLimitWatch(app, status, slot)
                        EXCEPT !.time_limit = status]
    /\ AppUnchanged

\* the sleep of watch i is over: _handle_time_limit_expired
WatchWake(i) ==
    /\ app.session = "idle"
    /\ app.watches[i].pc = "sleep"
    /\ app.clock >= app.watches[i].wake
    /\ app.leaves < MaxLeaves
    /\ app' = HandleTimeLimitExpired(app, i)
    /\ AppUnchanged

\* the task made for a status that was already expired runs
WatchExpire(i) ==
    /\ app.session = "idle"
    /\ app.watches[i].pc = "expire"
    /\ app.leaves < MaxLeaves
    /\ app' = HandleTimeLimitExpired(app, i)
    /\ AppUnchanged

\* the CancelledError reaches the cancelled watch i; its done callback runs
\* (after the first step of every task that is ready to run)
WatchCancelled(i) ==
    /\ app.watches[i].pc = "cancelled"
    /\ \A j \in Watches : app.watches[j].pc # "expire"
    /\ app' = WatchDone(app, i)
    /\ AppUnchanged

\* time.time() advances
AppTick ==
    /\ app.clock < MaxClock
    /\ app' = [app EXCEPT !.clock = @ + 1]
    /\ AppUnchanged

Init ==
    /\ audio = [buffers |-> [u \in Names |-> << >>], pending |-> << >>]
    /\ udp = {}
    /\ shutdown = [pc |-> "idle", closed |-> {}]
    /\ failing = {}
    /\ app = IdleApp
    /\ screen = [pc |-> "closed", username |-> None]
    /\ media = [header |-> Absent, datagram |-> << >>, restored |-> Absent]
    /\ stream = [sent |-> << >>, pending |-> << >>, buffer |-> << >>,
                 received |-> << >>]
    /\ time_limit = [limit |-> NoLimit, status |-> Absent]
    /\ clients = << >>
    /\ presenter = None
    /\ event_log = << >>
    /\ banned = {}
    /\ presence_cache = << >>
    /\ chat_history = << >>
    /\ writer_closed = [c \in Sockets |-> FALSE]
    /\ conn = [c \in Sockets |-> IdleConn]
    /\ fd = [pc |-> "idle", user |-> None, result |-> FALSE]
    /\ hb = [pc |-> "sleep", stale |-> << >>]
    /\ now = 0
    /\ cpu = NoTask
    /\ wire = NoWire
    /\ video_clients = [a \in Addrs |-> None]
    /\ audio_clients = [a \in Addrs |-> None]

\* ------------------------------------------ ControlServer._handle_client
ConnUnchanged == UNCHANGED <<fd, hb, now, time_limit, stream, media, screen, audio, udp, shutdown, failing, app>>

\* a connection is in use once every connection accepted before it is
Accepted(c) == \A d \in Sockets : d < c => conn[d].pc # "hello"

\* EOF before the handshake, or a first frame that is not HELLO: the
\* exception is logged, username is None, the writer is closed
HandshakeAbort(c) ==
    /\ Free(ConnTask(c))
    /\ conn[c].pc = "hello"
    /\ Accepted(c)
    /\ conn' = [conn EXCEPT ![c] = Closed("handshake")]
    /\ writer_closed' = CloseWriters({c})
    /\ wire' = NoWire
    /\ cpu' = NoTask
    /\ UNCHANGED <<sm_vars, relay_vars>>
    /\ ConnUnchanged

\* HELLO with a pre-shared key that does not match: ERROR is written to the
\* new connection and drained
HelloBadKey(c) ==
    /\ Free(ConnTask(c))
    /\ conn[c].pc = "hello"
    /\ Accepted(c)
    /\ conn' = [conn EXCEPT ![c].pc = "reject_drain"]
    /\ wire' = Write(c, "error", None, {})
    /\ cpu' = NoTask
    /\ UNCHANGED <<sm_vars, writer_closed, relay_vars>>
    /\ ConnUnchanged

\* after the drain: return, username is None, the writer is closed
RejectClose(c) ==
    /\ Free(ConnTask(c))
    /\ conn[c].pc = "reject_drain"
    /\ conn' = [conn EXCEPT ![c] = ClosedConn]
    /\ writer_closed' = CloseWriters({c})
    /\ wire' = NoWire
    /\ cpu' = NoTask
    /\ UNCHANGED <<sm_vars, relay_vars>>
    /\ ConnUnchanged

\* HELLO of a banned username: KICKED is written to the new connection and
\* drained; identity.username is kept for record_blocked_attempt
HelloBanned(c, u) ==
    /\ Free(ConnTask(c))
    /\ conn[c].pc = "hello"
    /\ Accepted(c)
    /\ u \in banned
    /\ conn' = [conn EXCEPT ![c].pc = "ban_drain", ![c].held = {u}]
    /\ wire' = Write(c, "kicked", None, {})
    /\ cpu' = NoTask
    /\ UNCHANGED <<sm_vars, writer_closed, relay_vars>>
    /\ ConnUnchanged

\* after the drain: record_blocked_attempt, return, the writer is closed
BannedRecord(c) ==
    /\ Free(ConnTask(c))
    /\ conn[c].pc = "ban_drain"
    /\ \E u \in conn[c].held :
          event_log' = RecordEvent(event_log, "user_blocked", u)
    /\ conn' = [conn EXCEPT ![c] = ClosedConn]
    /\ writer_closed' = CloseWriters({c})
    /\ wire' = NoWire
    /\ cpu' = NoTask
    /\ UNCHANGED <<clients, presenter, banned, presence_cache, chat_history,
                   relay_vars>>
    /\ ConnUnchanged

\* HELLO of a username that is not banned and already connected: register
\* raises ValueError before username is assigned; the writer is closed
HelloDuplicate(c, u) ==
    /\ Free(ConnTask(c))
    /\ conn[c].pc = "hello"
    /\ Accepted(c)
    /\ u \notin banned
    /\ RegisterOutcome(u) = "duplicate"
    /\ conn' = [conn EXCEPT ![c] = Closed("duplicate")]
    /\ writer_closed' = CloseWriters({c})
    /\ wire' = NoWire
    /\ cpu' = NoTask
    /\ UNCHANGED <<sm_vars, relay_vars>>
    /\ ConnUnchanged

\* HELLO that registers: register, record_received, list_clients, broadcast
\* USER_JOINED to everyone but the joiner
HelloOk(c, u) ==
    /\ Free(ConnTask(c))
    /\ conn[c].pc = "hello"
    /\ Accepted(c)
    /\ u \notin banned
    /\ RegisterOutcome(u) = "ok"
    /\ LET cl == RegisterClients(u, c)
           out == Broadcast(cl, "user_joined", u, DOMAIN cl, NoRaw, {u})
       IN /\ clients' = cl
          /\ event_log' = RecordEvent(event_log, "user_joined", u)
          /\ presence_cache' = Put(presence_cache, u, ClientPresencePayload(cl[u]))
          /\ wire' = out
          /\ cpu' = IF Suspends(out) THEN NoTask ELSE ConnTask(c)
    /\ conn' = [conn EXCEPT ![c].pc = "joined", ![c].username = u]
    /\ UNCHANGED <<presenter, banned, chat_history, writer_closed, relay_vars>>
    /\ ConnUnchanged

\* get_chat_history: the whole retained history
GetChatHistory(hist, j) == hist

\* get_chat_history_for: the retained entries without recipients, or sent by
\* j, or listing j as a recipient
GetChatHistoryFor(hist, j) ==
    SelectSeq(hist, LAMBDA m : \/ m.recipients = << >>
                               \/ m.sender = j
                               \/ \E i \in DOMAIN m.recipients : m.recipients[i] = j)

\* after the USER_JOINED broadcast: chat history, presenter, media state and
\* presence snapshot are read, WELCOME is written to the joiner and drained
Welcome(c) ==
    /\ Free(ConnTask(c))
    /\ conn[c].pc = "joined"
    /\ presence_cache' = RefreshedCache(clients, presence_cache)
    /\ conn' = [conn EXCEPT ![c].pc = "welcome", ![c].held = DOMAIN clients]
    /\ wire' = [Write(c, "welcome", conn[c].username, DOMAIN clients)
                   EXCEPT !.history = GetChatHistoryFor(chat_history,
                                                        conn[c].username)]
    /\ cpu' = NoTask
    /\ UNCHANGED <<clients, presenter, event_log, banned, chat_history,
                   writer_closed, relay_vars>>
    /\ ConnUnchanged

\* after the drain: PRESENCE_SYNC with the presence list read before WELCOME
\* is broadcast to everyone; the read loop starts
PresenceSync(c) ==
    /\ Free(ConnTask(c))
    /\ conn[c].pc = "welcome"
    /\ conn' = [conn EXCEPT ![c].pc = "active", ![c].held = {}]
    /\ wire' = Broadcast(clients, "presence_sync", None, conn[c].held, NoRaw, {})
    /\ cpu' = NoTask
    /\ UNCHANGED <<sm_vars, writer_closed, relay_vars>>
    /\ ConnUnchanged

\* AudioServer.remove_user: self._buffers.pop(username, None); a user
\* without an entry in _buffers is a user with an empty buffer
DropBuffer(au, u) == [au EXCEPT !.buffers[u] = << >>]

\* remove_user that drops no address
RemoveNobody(reg, u) == reg

\* AudioServer.remove_user / VideoServer.remove_user
RemoveUser(reg, u) == [a \in Addrs |-> IF reg[a] = u THEN None ELSE reg[a]]

\* the finally block, entered on EOF or an exception of the read loop, or on
\* an exception of the WELCOME drain: unregister, and only if it removed a
\* client USER_LEFT is broadcast
CleanupStart(c) ==
    /\ Free(ConnTask(c))
    /\ conn[c].pc \in {"welcome", "active"}
    /\ LET u == conn[c].username
           r == Unregister(u, "user_left")
           out == Broadcast(r.clients, "user_left", u, DOMAIN r.clients, NoRaw, {})
       IN /\ clients' = r.clients
          /\ presenter' = r.presenter
          /\ presence_cache' = r.presence_cache
          /\ event_log' = r.event_log
          /\ writer_closed' = CloseWriters(r.closed)
          /\ IF r.removed
             THEN /\ wire' = out
                  /\ conn' = [conn EXCEPT ![c].pc = "cl_left", ![c].held = {}]
                  /\ cpu' = IF Suspends(out) THEN NoTask ELSE ConnTask(c)
             ELSE /\ wire' = NoWire
                  /\ conn' = [conn EXCEPT ![c].pc = "cl_relay", ![c].held = {}]
                  /\ cpu' = NoTask
    /\ UNCHANGED <<banned, chat_history, relay_vars>>
    /\ ConnUnchanged

\* get_presence_snapshot, broadcast PRESENCE_SYNC, then the remove_user tasks
\* are gathered
CleanupSync(c) ==
    /\ Free(ConnTask(c))
    /\ conn[c].pc = "cl_left"
    /\ presence_cache' = RefreshedCache(clients, presence_cache)
    /\ wire' = Broadcast(clients, "presence_sync", None, DOMAIN clients, NoRaw, {})
    /\ conn' = [conn EXCEPT ![c].pc = "cl_relay"]
    /\ cpu' = NoTask
    /\ UNCHANGED <<clients, presenter, event_log, banned, chat_history,
                   writer_closed, relay_vars>>
    /\ ConnUnchanged

\* the two remove_user tasks run back to back, then writer.close()
CleanupFinish(c) ==
    /\ Free(ConnTask(c))
    /\ conn[c].pc = "cl_relay"
    /\ video_clients' = RemoveUser(video_clients, conn[c].username)
    /\ audio_clients' = RemoveUser(audio_clients, conn[c].username)
    /\ audio' = DropBuffer(audio, conn[c].username)
    /\ writer_closed' = CloseWriters({c})
    /\ conn' = [conn EXCEPT ![c] = ClosedConn]
    /\ wire' = NoWire
    /\ cpu' = NoTask
    /\ UNCHANGED <<sm_vars>>
    /\ UNCHANGED <<fd, hb, now, time_limit, stream, media, screen, udp, shutdown, failing, app>>

\* ----------------------------------------- ControlServer._handle_message
\* mark_heartbeat: touch and refresh the presence entry, if connected
MarkHeartbeat(u) ==
    IF u \in DOMAIN clients
    THEN [clients |-> [clients EXCEPT ![u].last_seen = now],
          presence_cache |-> Put(presence_cache, u, ClientPresencePayload(clients[u]))]
    ELSE [clients |-> clients, presence_cache |-> presence_cache]

Heartbeat(c) ==
    /\ Free(ConnTask(c))
    /\ conn[c].pc = "active"
    /\ LET r == MarkHeartbeat(conn[c].username)
       IN /\ clients' = r.clients
          /\ presence_cache' = r.presence_cache
    /\ wire' = NoWire
    /\ cpu' = NoTask
    /\ UNCHANGED <<presenter, event_log, banned, chat_history, writer_closed,
                   conn, relay_vars>>
    /\ ConnUnchanged

\* grant_presenter that reports success without testing who holds the role
GrantPresenterUntested(u) ==
    [granted |-> TRUE, presenter |-> presenter, clients |-> clients,
     event_log |-> event_log]

\* grant_presenter: its return value and the values it leaves behind
GrantPresenter(u) ==
    IF u \notin DOMAIN clients
    THEN [granted |-> FALSE, presenter |-> presenter, clients |-> clients,
          event_log |-> event_log]
    ELSE IF presenter = u
    THEN [granted |-> TRUE, presenter |-> presenter, clients |-> clients,
          event_log |-> event_log]
    ELSE IF presenter # None /\ presenter # u
    THEN [granted |-> FALSE, presenter |-> presenter, clients |-> clients,
          event_log |-> event_log]
    ELSE [granted |-> TRUE, presenter |-> u,
          clients |-> [clients EXCEPT ![u].is_presenter = TRUE],
          event_log |-> RecordEvent(event_log, "presenter_granted", u)]

\* revoke_presenter: the values it leaves behind
RevokePresenter(u) ==
    [presenter |-> IF presenter = u THEN None ELSE presenter,
     clients |-> IF u \in DOMAIN clients
                 THEN [clients EXCEPT ![u].is_presenter = FALSE]
                 ELSE clients,
     event_log |-> RecordEvent(event_log, "presenter_revoked", u)]

\* PRESENTER_GRANTED: broadcast only when grant_presenter returned true
PresenterGranted(c) ==
    /\ Free(ConnTask(c))
    /\ conn[c].pc = "active"
    /\ Len(event_log) < MaxEvents
    /\ LET u == conn[c].username
           r == GrantPresenter(u)
       IN /\ presenter' = r.presenter
          /\ clients' = r.clients
          /\ event_log' = r.event_log
          /\ wire' = IF r.granted
                     THEN Broadcast(r.clients, "presenter_granted", u, {}, NoRaw, {})
                     ELSE NoWire
    /\ cpu' = NoTask
    /\ UNCHANGED <<banned, presence_cache, chat_history, writer_closed, conn,
                   relay_vars>>
    /\ ConnUnchanged

\* PRESENTER_REVOKED: revoke_presenter, then broadcast unconditionally
PresenterRevoked(c) ==
    /\ Free(ConnTask(c))
    /\ conn[c].pc = "active"
    /\ Len(event_log) < MaxEvents
    /\ LET u == conn[c].username
           r == RevokePresenter(u)
       IN /\ presenter' = r.presenter
          /\ clients' = r.clients
          /\ event_log' = r.event_log
          /\ wire' = Broadcast(r.clients, "presenter_revoked", u, {}, NoRaw, {})
    /\ cpu' = NoTask
    /\ UNCHANGED <<banned, presence_cache, chat_history, writer_closed, conn,
                   relay_vars>>
    /\ ConnUnchanged

\* ---- CHAT_MESSAGE
\* A recipients entry of the payload: a JSON string (a sequence of tokens, " "
\* standing for whitespace) or a value that is not a string
Str(text) == [isstr |-> TRUE, text |-> text]
NotStr == [isstr |-> FALSE, text |-> << >>]

RawEntries ==
    {Str(<<n>>) : n \in Names} \cup {Str(<<" ", "bob">>), Str(<<" ">>), NotStr}

\* payload.get("recipients"): absent, or a list of entries
RawChoices ==
    {NoRaw, [islist |-> TRUE, items |-> << >>]}
        \cup {[islist |-> TRUE, items |-> <<e>>] : e \in RawEntries}

RECURSIVE LStrip(_)
LStrip(t) == IF t # << >> /\ Head(t) = " " THEN LStrip(Tail(t)) ELSE t

RECURSIVE RStrip(_)
RStrip(t) ==
    IF t # << >> /\ t[Len(t)] = " " THEN RStrip(SubSeq(t, 1, Len(t) - 1)) ELSE t

\* str.strip()
Strip(t) == RStrip(LStrip(t))

\* [str(x).strip() for x in recipients_raw if isinstance(x, str) and x.strip()]
RECURSIVE StripAll(_)
StripAll(items) ==
    IF items = << >> THEN << >>
    ELSE LET x == Head(items)
         IN IF x.isstr /\ Strip(x.text) # << >>
            THEN <<Strip(x.text)[1]>> \o StripAll(Tail(items))
            ELSE StripAll(Tail(items))

\* the normalised recipients; << >> stands for None (an empty list becomes None)
Recipients(raw) == IF raw.islist THEN StripAll(raw.items) ELSE << >>

Range(s) == {s[i] : i \in DOMAIN s}

\* add_chat_message that drops the newest entry beyond the limit
AddChatMessageDropNewest(hist, chat) ==
    LET h == Append(hist, chat)
    IN IF Len(h) > CHAT_HISTORY_LIMIT THEN SubSeq(h, 1, CHAT_HISTORY_LIMIT) ELSE h

\* add_chat_message: append, drop the oldest beyond the limit
AddChatMessage(hist, chat) ==
    LET h == Append(hist, chat)
    IN IF Len(h) > CHAT_HISTORY_LIMIT THEN Tail(h) ELSE h

\* the sender of the record taken from the payload when it gives one
ChatSenderFromPayload(username, claimed) ==
    IF claimed # None THEN claimed ELSE username

\* "sender": username; the payload's own sender value (claimed) is not read
ChatSender(username, claimed) == username

\* the chat record is built with the connection's username as sender and
\* stored; without recipients it is broadcast, otherwise the send_to loop
\* over set(recipients) | {username} starts
Chat(c, raw) ==
    /\ Free(ConnTask(c))
    /\ conn[c].pc = "active"
    /\ Len(chat_history) < MaxChat
    /\ Len(event_log) < MaxEvents
    /\ \E claimed \in Names \cup {None} :
          LET u == conn[c].username
              recipients == Recipients(raw)
              chat == [sender |-> ChatSender(u, claimed), recipients |-> recipients]
          IN /\ chat_history' = AddChatMessage(chat_history, chat)
             /\ event_log' = RecordEvent(event_log, "chat_message", chat.sender)
             /\ IF recipients = << >>
                THEN /\ wire' = Broadcast(clients, "chat_message", chat.sender,
                                          {}, raw, {})
                     /\ conn' = conn
                     /\ cpu' = NoTask
                ELSE /\ wire' = NoWire
                     /\ conn' = [conn EXCEPT ![c].pc = "chat_dm",
                                             ![c].held = Range(recipients) \cup {u},
                                             ![c].raw = raw,
                                             ![c].sender = chat.sender]
                     /\ cpu' = ConnTask(c)
    /\ UNCHANGED <<clients, presenter, banned, presence_cache, writer_closed,
                   relay_vars>>
    /\ ConnUnchanged

\* one iteration of the send_to loop; send_to suspends only if it queued
ChatSend(c) ==
    /\ Free(ConnTask(c))
    /\ conn[c].pc = "chat_dm"
    /\ \E t \in conn[c].held :
          LET raw == conn[c].raw
              out == SendTo(clients, t, "chat_message", conn[c].sender,
                            Range(Recipients(raw)), raw)
              rest == conn[c].held \ {t}
          IN /\ wire' = out
             /\ conn' = IF rest = {}
                        THEN [conn EXCEPT ![c].pc = "active", ![c].held = {},
                                          ![c].raw = NoRaw, ![c].sender = None]
                        ELSE [conn EXCEPT ![c].held = rest]
             /\ cpu' = IF rest = {} \/ Suspends(out) THEN NoTask ELSE ConnTask(c)
    /\ UNCHANGED <<sm_vars, writer_closed, relay_vars>>
    /\ ConnUnchanged

\* ------------------------------------- SessionManager.heartbeat_watcher
\* the stale test with >= in place of >
StaleAtWindow ==
    {u \in DOMAIN clients : now - clients[u].last_seen >= HEARTBEAT_TIMEOUT * 2}

\* the clients whose last heartbeat is older than twice the timeout
Stale == {u \in DOMAIN clients : now - clients[u].last_seen > HEARTBEAT_TIMEOUT * 2}

\* what the watcher does to the session state for the stale set S
Evict(S) ==
    [clients |-> [u \in (DOMAIN clients) \ S |-> clients[u]],
     presenter |-> presenter,
     presence_cache |-> presence_cache,
     closed |-> {},
     event_log |-> event_log]

Orderings(S) ==
    {s \in [1..Cardinality(S) -> S] : \A i, j \in DOMAIN s : i # j => s[i] # s[j]}

\* the watcher wakes up: the stale clients are popped from the client map (in
\* the map's iteration order, any order here)
HbRun ==
    /\ cpu = NoTask
    /\ hb.pc = "sleep"
    /\ Stale # {}
    /\ LET r == Evict(Stale)
       IN /\ clients' = r.clients
          /\ presenter' = r.presenter
          /\ presence_cache' = r.presence_cache
          /\ event_log' = r.event_log
          /\ writer_closed' = CloseWriters(r.closed)
    /\ \E order \in Orderings(Stale) : hb' = [pc |-> "bcast", stale |-> order]
    /\ cpu' = HbTask
    /\ wire' = NoWire
    /\ UNCHANGED <<banned, chat_history, conn, fd, now, time_limit, stream, media, screen, audio, udp, shutdown, failing, app, relay_vars>>

\* one iteration of the loop over stale: list_clients, broadcast USER_LEFT
HbBroadcast ==
    /\ Free(HbTask)
    /\ hb.pc = "bcast"
    /\ LET u == Head(hb.stale)
           rest == Tail(hb.stale)
           out == Broadcast(clients, "user_left", u, DOMAIN clients, NoRaw, {})
       IN /\ wire' = out
          /\ hb' = [pc |-> IF rest = << >> THEN "sleep" ELSE "bcast", stale |-> rest]
          /\ cpu' = IF Suspends(out) \/ rest = << >> THEN NoTask ELSE HbTask
    /\ UNCHANGED <<sm_vars, writer_closed, conn, fd, now, time_limit, stream, media, screen, audio, udp, shutdown, failing, app, relay_vars>>

\* time.monotonic() advances by d seconds (only differences to last_seen are
\* read, so the clock is left alone while nobody is connected)
Advance(d) ==
    /\ cpu = NoTask
    /\ DOMAIN clients # {}
    /\ now + d <= MaxTicks * ClockStep
    /\ now' = now + d
    /\ UNCHANGED <<time_limit, stream, media, screen, audio, udp, shutdown, failing, app>>
    /\ wire' = NoWire
    /\ UNCHANGED <<sm_vars, writer_closed, conn, fd, hb, cpu, relay_vars>>

\* one heartbeat interval passes
Tick == Advance(ClockStep)

\* a pause long enough for every silent client to time out
LongPause == Advance(MaxTicks * ClockStep)

\* ------------------------------------- ControlServer.force_disconnect
\* unregister with a user_kicked event; if it removed nothing force_disconnect
\* returns false, otherwise ban_user, list_clients and broadcast USER_LEFT
FdContinue(u) ==
    LET r == Unregister(u, "user_kicked")
        out == Broadcast(r.clients, "user_left", u, DOMAIN r.clients, NoRaw, {})
    IN /\ clients' = r.clients
       /\ presenter' = r.presenter
       /\ presence_cache' = r.presence_cache
       /\ event_log' = r.event_log
       /\ writer_closed' = CloseWriters(r.closed)
       /\ IF r.removed
          THEN /\ banned' = banned \cup {u}
               /\ wire' = out
               /\ fd' = [pc |-> "left", user |-> u, result |-> FALSE]
               /\ cpu' = IF Suspends(out) THEN NoTask ELSE FdTask
          ELSE /\ banned' = banned
               /\ wire' = NoWire
               /\ fd' = [pc |-> "idle", user |-> u, result |-> FALSE]
               /\ cpu' = NoTask

\* force_disconnect(u) is called: send_to(KICKED) suspends in the drain if u
\* is connected; otherwise nothing is queued and the call runs on
FdStart(u) ==
    /\ cpu = NoTask
    /\ fd.pc = "idle"
    /\ LET out == SendTo(clients, u, "kicked", None, {}, NoRaw)
       IN IF Suspends(out)
          THEN /\ wire' = out
               /\ fd' = [pc |-> "kicked", user |-> u, result |-> FALSE]
               /\ UNCHANGED <<sm_vars, writer_closed, cpu>>
          ELSE /\ FdContinue(u)
               /\ UNCHANGED chat_history
    /\ UNCHANGED <<conn, hb, now, time_limit, stream, media, screen, audio, udp, shutdown, failing, app, relay_vars>>

\* after the KICKED drain
FdUnregister ==
    /\ Free(FdTask)
    /\ fd.pc = "kicked"
    /\ FdContinue(fd.user)
    /\ UNCHANGED <<chat_history, conn, hb, now, time_limit, stream, media, screen, audio, udp, shutdown, failing, app, relay_vars>>

\* get_presence_snapshot, broadcast PRESENCE_SYNC, then the remove_user tasks
\* are gathered
FdSync ==
    /\ Free(FdTask)
    /\ fd.pc = "left"
    /\ presence_cache' = RefreshedCache(clients, presence_cache)
    /\ wire' = Broadcast(clients, "presence_sync", None, DOMAIN clients, NoRaw, {})
    /\ fd' = [fd EXCEPT !.pc = "relay"]
    /\ cpu' = NoTask
    /\ UNCHANGED <<clients, presenter, event_log, banned, chat_history,
                   writer_closed, conn, hb, now, time_limit, stream, media, screen, audio, udp, shutdown, failing, app, relay_vars>>

\* the two remove_user tasks run; force_disconnect returns true
FdFinish ==
    /\ Free(FdTask)
    /\ fd.pc = "relay"
    /\ video_clients' = RemoveUser(video_clients, fd.user)
    /\ audio_clients' = RemoveUser(audio_clients, fd.user)
    /\ audio' = DropBuffer(audio, fd.user)
    /\ fd' = [fd EXCEPT !.pc = "idle", !.result = TRUE]
    /\ wire' = NoWire
    /\ cpu' = NoTask
    /\ UNCHANGED <<sm_vars, writer_closed, conn, hb, now, time_limit, stream,
                   media, screen, udp, shutdown, failing, app>>

\* -------------------------------------------- ConnectedClient.send
FailUnchanged ==
    UNCHANGED <<sm_vars, writer_closed, conn, fd, hb, now, time_limit, stream,
                media, screen, audio, udp, shutdown, app, cpu, relay_vars>>

\* from now on client.send on the established connection c raises
SendFails(c) ==
    /\ conn[c].pc = "active"
    /\ c \notin failing
    /\ failing' = failing \cup {c}
    /\ wire' = NoWire
    /\ FailUnchanged

\* client.send on c works again
SendRecovers(c) ==
    /\ c \in failing
    /\ failing' = failing \ {c}
    /\ wire' = NoWire
    /\ FailUnchanged

\* ------------------------------------ SessionManager.disconnect_all
ShutdownTask == <<"shutdown">>

ShutdownReasons == {"Server shutting down", "Restart"}

ShutdownUnchanged ==
    UNCHANGED <<banned, chat_history, conn, fd, hb, now, time_limit, stream,
                media, screen, audio, udp, failing, app, relay_vars>>

\* disconnect_all(reason) up to its gather: with nobody connected it returns
\* at once; otherwise KICKED is written to every client and its writer is
\* closed, the session is cleared and server_shutdown is recorded
DisconnectAll(reason) ==
    /\ cpu = NoTask
    /\ shutdown.pc = "idle"
    /\ IF DOMAIN clients = {}
       THEN /\ shutdown' = [pc |-> "returned", closed |-> {}]
            /\ wire' = NoWire
            /\ UNCHANGED <<sm_vars, writer_closed>>
       ELSE LET writers == {clients[u].writer : u \in DOMAIN clients}
            IN /\ wire' = [Call("disconnect_all", writers \ failing, "kicked",
                                 None, {}, NoRaw) EXCEPT !.reason = reason]
               /\ writer_closed' = CloseWriters(writers)
               /\ clients' = << >>
               /\ presence_cache' = << >>
               /\ presenter' = None
               /\ event_log' = RecordEvent(event_log, "server_shutdown", None)
               /\ shutdown' = [pc |-> "gather", closed |-> writers]
    /\ UNCHANGED cpu
    /\ ShutdownUnchanged

\* the drains and the wait_closed of disconnect_all are done: it returns
DisconnectAllReturn ==
    /\ Free(ShutdownTask)
    /\ shutdown.pc = "gather"
    /\ shutdown' = [shutdown EXCEPT !.pc = "returned"]
    /\ wire' = NoWire
    /\ cpu' = NoTask
    /\ UNCHANGED <<sm_vars, writer_closed>>
    /\ ShutdownUnchanged

\* ------------------------------------------------ admin: unban_user
UnbanUser(u) ==
    /\ cpu = NoTask
    /\ u \in banned
    /\ banned' = banned \ {u}
    /\ wire' = NoWire
    /\ UNCHANGED <<clients, presenter, event_log, presence_cache, chat_history,
                   writer_closed, conn, fd, hb, now, time_limit, stream, media, screen, audio, udp, shutdown, failing, app, cpu, relay_vars>>

\* ------------------------- VideoServer / AudioServer.datagram_received
\* a registration datagram from an address that is not registered yet
VideoRegister(a, u) ==
    /\ cpu = NoTask
    /\ video_clients[a] = None
    /\ video_clients' = [video_clients EXCEPT ![a] = u]
    /\ wire' = NoWire
    /\ UNCHANGED <<sm_vars, writer_closed, conn, fd, hb, now, time_limit, stream, media, screen, audio, udp, shutdown, failing, app, cpu, audio_clients>>

AudioRegister(a, u) ==
    /\ cpu = NoTask
    /\ audio_clients[a] = None
    /\ audio_clients' = [audio_clients EXCEPT ![a] = u]
    /\ wire' = NoWire
    /\ UNCHANGED <<sm_vars, writer_closed, conn, fd, hb, now, time_limit, stream, media, screen, audio, udp, shutdown, failing, app, cpu, video_clients>>

\* ------------------------------------------------------- AudioServer
\* A chunk is the array of samples of one datagram: every sample of a chunk
\* of user u has the value Sample(u). A mix is kept as the sum of the padded
\* chunks and the number it is divided by.
Sample(u) == IF u = "alice" THEN 1 ELSE IF u = "bob" THEN 10 ELSE 100

ChunkSizes == {0, 2}

Chunk(u, size) == [i \in 1 .. size |-> Sample(u)]

AudioUnchanged ==
    UNCHANGED <<shutdown, failing, app, sm_vars, writer_closed, conn, fd, hb, now, time_limit, stream,
                media, screen, cpu, wire, video_clients>>

\* datagram_received from a registered address with an AUDIO header: the
\* _enqueue task is created
AudioReceive(a, size, room) ==
    /\ audio_clients[a] # None
    /\ Len(audio.pending) < MaxPending
    /\ Len(audio.buffers[audio_clients[a]]) < room
    /\ audio' = [audio EXCEPT !.pending =
                     Append(@, [username |-> audio_clients[a],
                                samples |-> Chunk(audio_clients[a], size)])]
    /\ udp' = {}
    /\ UNCHANGED audio_clients
    /\ AudioUnchanged

\* the same while the sender's buffer holds fewer than MaxBuffered chunks
AudioDatagram(a, size) == AudioReceive(a, size, MaxBuffered)

\* the same whatever the sender's buffer holds
AudioFlood(a, size) == AudioReceive(a, size, MAX_BUFFER_FRAMES + 1)

\* the trimming with pop in place of popleft: the newest chunks are dropped
TrimNewest(b) ==
    IF Len(b) > MAX_BUFFER_FRAMES THEN SubSeq(b, 1, MAX_BUFFER_FRAMES) ELSE b

\* buffer.append, then popleft while the buffer holds more than the limit
RECURSIVE TrimBuffer(_)
TrimBuffer(b) == IF Len(b) > MAX_BUFFER_FRAMES THEN TrimBuffer(Tail(b)) ELSE b

\* the oldest _enqueue task runs
AudioEnqueue ==
    /\ audio.pending # << >>
    /\ LET t == Head(audio.pending)
       IN audio' = [audio EXCEPT
                       !.pending = Tail(@),
                       !.buffers[t.username] = TrimBuffer(Append(@, t.samples))]
    /\ udp' = {}
    /\ UNCHANGED audio_clients
    /\ AudioUnchanged

\* AudioServer.remove_user
AudioRemoveUser(u) ==
    /\ \E a \in Addrs : audio_clients[a] = u
    /\ audio_clients' = RemoveUser(audio_clients, u)
    /\ audio' = DropBuffer(audio, u)
    /\ udp' = {}
    /\ AudioUnchanged

\* the users with a buffered chunk
Contributors(buffers) == {u \in Names : buffers[u] # << >>}

\* the largest chunk.size among the chunks popped
RECURSIVE MaxLen(_, _)
MaxLen(buffers, us) ==
    IF us = {} THEN 0
    ELSE LET u == CHOOSE v \in us : TRUE
             rest == MaxLen(buffers, us \ {u})
         IN IF Len(Head(buffers[u])) > rest THEN Len(Head(buffers[u])) ELSE rest

\* pad[: chunk.size] = chunk on zeros of the common length
Padded(chunk, max_len) ==
    [i \in 1 .. max_len |-> IF i <= Len(chunk) THEN chunk[i] ELSE 0]

\* mixed += audio for every audio of us
RECURSIVE MixSum(_, _, _)
MixSum(buffers, us, max_len) ==
    IF us = {} THEN [i \in 1 .. max_len |-> 0]
    ELSE LET u == CHOOSE v \in us : TRUE
             rest == MixSum(buffers, us \ {u}, max_len)
             p == Padded(Head(buffers[u]), max_len)
         IN [i \in 1 .. max_len |-> rest[i] + p[i]]

\* the contributions mixed for a target: everybody's
Everybody(us, username) == us

\* the contributions mixed for a target registered as username
Others(us, username) == us \ {username}

\* the mix for a target: zeros, or the sum divided by len(others)
Mixed(buffers, us, username, max_len) ==
    LET others == Others(us, username)
    IN [sum |-> MixSum(buffers, others, max_len),
        over |-> IF others = {} THEN 1 ELSE Cardinality(others)]

\* one iteration of _mix_loop after the sleep
MixTick ==
    LET targets == {a \in Addrs : audio_clients[a] # None}
        us == Contributors(audio.buffers)
        max_len == MaxLen(audio.buffers, us)
    IN /\ IF targets = {}
          THEN /\ UNCHANGED audio
               /\ udp' = {}
          ELSE /\ audio' = [audio EXCEPT !.buffers =
                               [u \in Names |->
                                  IF u \in us THEN Tail(@[u]) ELSE @[u]]]
               /\ udp' = IF us = {} \/ max_len = 0
                          THEN {}
                          ELSE {[server |-> "audio", to |-> a,
                                 data |-> Mixed(audio.buffers, us,
                                                audio_clients[a], max_len)]
                                  : a \in targets}
       /\ UNCHANGED audio_clients
       /\ AudioUnchanged

\* ------------------------------------------------------- VideoServer
\* {"action": "register", "username": "
RegisterJsonHead ==
    <<123, 34, 97, 99, 116, 105, 111, 110, 34, 58, 32, 34, 114, 101, 103, 105,
      115, 116, 101, 114, 34, 44, 32, 34, 117, 115, 101, 114, 110, 97, 109,
      101, 34, 58, 32, 34>>

NameBytes(u) ==
    IF u = "alice" THEN <<97, 108, 105, 99, 101>>
    ELSE IF u = "bob" THEN <<98, 111, 98>>
    ELSE <<103, 104, 111, 115, 116>>

\* json.dumps({"action": "register", "username": u}).encode("utf-8")
RegisterJson(u) == RegisterJsonHead \o NameBytes(u) \o <<34, 125>>

\* {"action": "register"}
RegisterNoUserJson ==
    <<123, 34, 97, 99, 116, 105, 111, 110, 34, 58, 32, 34, 114, 101, 103, 105,
      115, 116, 101, 114, 34, 125>>

\* {"action": "hello", "username": "alice"}
HelloJson ==
    <<123, 34, 97, 99, 116, 105, 111, 110, 34, 58, 32, 34, 104, 101, 108, 108,
      111, 34, 44, 32, 34, 117, 115, 101, 114, 110, 97, 109, 101, 34, 58, 32,
      34, 97, 108, 105, 99, 101, 34, 125>>

\* a media frame of one payload byte
MediaFrame(payload_type, body) ==
    PackHeader([stream_id |-> 1, sequence_number |-> 42, timestamp_ms |-> 0,
                payload_type |-> payload_type]) \o <<body>>

\* shorter than a header
ShortDatagram == <<0, 0, 0, 1>>

VideoInputs ==
    {RegisterJson(u) : u \in Names}
        \cup {RegisterNoUserJson, HelloJson, ShortDatagram}
        \cup {MediaFrame(t, b) : t \in {1, 2}, b \in {7, 8}}

\* json.loads(data.decode("utf-8")) of the texts above: the action and the
\* username of the message; Absent when the bytes are not JSON
HandshakeOf(data) ==
    IF \E u \in Names : data = RegisterJson(u)
    THEN Some([action |-> "register",
               username |-> CHOOSE u \in Names : data = RegisterJson(u)])
    ELSE IF data = RegisterNoUserJson
    THEN Some([action |-> "register", username |-> None])
    ELSE IF data = HelloJson
    THEN Some([action |-> "hello", username |-> "alice"])
    ELSE Absent

\* the addresses a frame is relayed to when none is skipped
AllRegistered(reg, addr) == {a \in Addrs : reg[a] # None}

\* the addresses a frame from addr is relayed to
RelayTargets(reg, addr) == {a \in Addrs : reg[a] # None /\ a # addr}

VideoUnchanged ==
    UNCHANGED <<shutdown, failing, app, sm_vars, writer_closed, conn, fd, hb, now, time_limit, stream,
                media, screen, audio, cpu, wire, audio_clients>>

\* VideoServer.datagram_received
VideoDatagramReceived(addr, data) ==
    /\ IF video_clients[addr] = None
       THEN LET message == HandshakeOf(data)
            IN /\ video_clients' =
                     IF /\ message # Absent
                        /\ message[1].action = "register"
                        /\ message[1].username # None
                     THEN [video_clients EXCEPT ![addr] = message[1].username]
                     ELSE video_clients
               /\ udp' = {}
       ELSE /\ UNCHANGED video_clients
            /\ udp' =
                  IF Len(data) < 16 THEN {}
                  ELSE IF Unpack32(data, 12) # 1 THEN {}
                  ELSE {[server |-> "video", to |-> a, data |-> data]
                          : a \in RelayTargets(video_clients, addr)}
    /\ VideoUnchanged

\* VideoServer.remove_user
VideoRemoveUser(u) ==
    /\ \E a \in Addrs : video_clients[a] = u
    /\ video_clients' = RemoveUser(video_clients, u)
    /\ udp' = {}
    /\ VideoUnchanged

\* ------------------------------------------ SessionManager.set_time_limit
\* the durations an administrator gives, in hundredths of a minute, and the
\* start timestamps, in seconds
DurationInputs == {Absent, Some(0 - 100), Some(0), Some(50), Some(100),
                   Some(151), Some(3000)}

StartInputs == {Absent, Some(0), Some(1000)}

\* set_time_limit(duration_minutes, start_timestamp): clear or set the limit,
\* record the event, build and return the status
SetTimeLimit(d, s) ==
    LET t == Seconds(now)
        tl == time_limit.limit
        clear == d = Absent \/ d[1] <= 0
        was_active == tl.duration # Absent
        start_time ==
            IF s # Absent THEN Seconds(s[1])
            ELSE IF tl.started # Absent /\ tl.started # Some(0)
                 THEN tl.started[1] ELSE t
        set == [duration |-> Some(DurationSeconds(d[1])),
                end |-> Some(start_time + DurationSeconds(d[1])),
                started |-> Some(start_time)]
        limit == IF clear THEN NoLimit ELSE set
    IN /\ cpu = NoTask
       /\ Len(event_log) < MaxEvents
       /\ time_limit' = [limit |-> limit,
                         status |-> Some(BuildTimeLimitStatus(limit, t))]
       /\ event_log' =
             IF clear
             THEN IF was_active
                  THEN RecordEvent(event_log, "time_limit_cleared", None)
                  ELSE event_log
             ELSE RecordEvent(event_log, "time_limit_set", None)
       /\ wire' = NoWire
       /\ UNCHANGED <<clients, presenter, banned, presence_cache, chat_history,
                      writer_closed, conn, fd, hb, now, stream, media, screen, audio, udp, shutdown, failing, app, cpu, relay_vars>>

\* the wall clock moves on by one heartbeat interval
Elapse ==
    /\ cpu = NoTask
    /\ now + ClockStep <= MaxTicks * ClockStep
    /\ now' = now + ClockStep
    /\ wire' = NoWire
    /\ UNCHANGED <<sm_vars, writer_closed, conn, fd, hb, time_limit, stream, media, screen, audio, udp, shutdown, failing, app, cpu,
                   relay_vars>>

\* ------------------------------------- one control connection's bytes
StreamUnchanged ==
    UNCHANGED <<sm_vars, writer_closed, conn, fd, hb, now, time_limit, media,
                screen, audio, udp, shutdown, failing, app, cpu, wire, relay_vars>>

\* the peer writes encode_control_message(m) to the connection
StreamSend(m) ==
    /\ Len(stream.sent) < MaxMessages
    /\ stream' = [stream EXCEPT !.sent = Append(@, m),
                                !.pending = @ \o EncodeControlMessage(m)]
    /\ StreamUnchanged

\* reader.read returns the next n bytes; buffer += data; the complete
\* messages are decoded and the rest is kept for the next read
StreamRead(n) ==
    /\ n <= Len(stream.pending)
    /\ LET data == SubSeq(stream.pending, 1, n)
           r == DecodeControlStream(stream.buffer \o data)
       IN /\ ~r.raised
          /\ stream' = [stream EXCEPT
                           !.pending = SubSeq(@, n + 1, Len(@)),
                           !.buffer = r.rest,
                           !.received = @ \o r.messages]
    /\ StreamUnchanged

\* ------------------------------------ ScreenServer._handle_connection
\* broadcast of SCREEN_CONTROL to everyone but the named user; raw.items
\* holds the state field of the payload
ScreenControl(state, u) ==
    [Broadcast(clients, "screen_control", u, {}, NoRaw, {u})
        EXCEPT !.raw = [islist |-> FALSE, items |-> <<state>>]]

ScreenUnchanged ==
    UNCHANGED <<sm_vars, writer_closed, conn, fd, hb, now, time_limit, stream,
                media, audio, udp, shutdown, failing, app, cpu, relay_vars>>

\* a connection to the screen port is accepted
ScreenConnect ==
    /\ cpu = NoTask
    /\ screen.pc = "closed"
    /\ screen' = [pc |-> "handshake", username |-> None]
    /\ wire' = NoWire
    /\ ScreenUnchanged

\* the handshake is read. Without a username ValueError is raised while
\* username is empty; for a username that is not the presenter
\* PermissionError is raised after username was assigned, and the finally
\* block broadcasts SCREEN_CONTROL stop for it; for the presenter
\* SCREEN_CONTROL start is broadcast and the frame loop begins
ScreenHandshake(u) ==
    /\ cpu = NoTask
    /\ screen.pc = "handshake"
    /\ IF u = None
       THEN /\ wire' = NoWire
            /\ screen' = [pc |-> "closed", username |-> None]
       ELSE IF presenter # u
       THEN /\ wire' = ScreenControl("stop", u)
            /\ screen' = [pc |-> "closed", username |-> None]
       ELSE /\ wire' = ScreenControl("start", u)
            /\ screen' = [pc |-> "streaming", username |-> u]
    /\ ScreenUnchanged

\* a frame is read and broadcast as SCREEN_FRAME
ScreenFrame ==
    /\ cpu = NoTask
    /\ screen.pc = "streaming"
    /\ wire' = Broadcast(clients, "screen_frame", screen.username, {}, NoRaw,
                         {screen.username})
    /\ UNCHANGED screen
    /\ ScreenUnchanged

\* a frame of length zero, or the end of the stream: the finally block
\* broadcasts SCREEN_CONTROL stop and closes the writer
ScreenEnd ==
    /\ cpu = NoTask
    /\ screen.pc = "streaming"
    /\ wire' = ScreenControl("stop", screen.username)
    /\ screen' = [pc |-> "closed", username |-> None]
    /\ ScreenUnchanged

ScreenRelay ==
    \/ ScreenConnect
    \/ \E u \in Names \cup {None} : ScreenHandshake(u)
    \/ ScreenFrame
    \/ ScreenEnd

\* ------------------------------------------------ one media datagram
\* stream_id_for(username), _next_sequence(), time.time() * 1000 as a whole
\* number of milliseconds, PayloadType
StreamIds == {0, 1, 2147483647}

SequenceNumbers == {0, 42, 2147483647}

Timestamps == {0, 1234, 16777216, 16777217, 2000000001}

PayloadTypes == {1, 2, 3}

MediaUnchanged ==
    UNCHANGED <<sm_vars, writer_closed, conn, fd, hb, now, time_limit, stream,
                screen, audio, udp, shutdown, failing, app, cpu, wire, relay_vars>>

\* the sender builds a header, packs it and sends the datagram
MediaSend(h) ==
    /\ media.datagram = << >>
    /\ media' = [header |-> Some(h), datagram |-> PackHeader(h),
                 restored |-> Absent]
    /\ MediaUnchanged

\* datagram_received: the header is unpacked from the first 16 bytes
MediaReceive ==
    /\ media.datagram # << >>
    /\ media' = [media EXCEPT !.datagram = << >>,
                              !.restored = Some(UnpackHeader(media.datagram))]
    /\ MediaUnchanged

\* ------------------------------------------- the two rings under load
\* One append per second of the clock, so that now counts the appends: first
\* RingChats chat messages (each also records a chat_message event), then
\* blocked attempts until the event log has overflowed as well.
RingChats == CHAT_HISTORY_LIMIT + MaxOverflow

RingEvents == EVENT_LOG_LIMIT + MaxOverflow

\* the sender of the k-th append: free for the first ones, then alternating
RingSenders(k) ==
    IF k < MaxOverflow THEN Users
    ELSE IF k % 2 = 0 THEN {"alice"} ELSE {"bob"}

RingUnchanged ==
    UNCHANGED <<clients, presenter, banned, presence_cache, writer_closed, conn,
                fd, hb, cpu, wire, relay_vars>>

\* add_chat_message of a message without recipients
RingChat(u) ==
    /\ now < RingChats
    /\ u \in RingSenders(now)
    /\ chat_history' = AddChatMessage(chat_history,
                            [sender |-> u, recipients |-> << >>])
    /\ event_log' = RecordEvent(event_log, "chat_message", u)
    /\ now' = now + 1
    /\ UNCHANGED <<time_limit, stream, media, screen, audio, udp, shutdown, failing, app>>
    /\ RingUnchanged

\* record_blocked_attempt
RingBlocked(u) ==
    /\ now >= RingChats
    /\ now < RingEvents
    /\ u \in RingSenders(now)
    /\ event_log' = RecordEvent(event_log, "user_blocked", u)
    /\ now' = now + 1
    /\ UNCHANGED <<time_limit, stream, media, screen, audio, udp, shutdown, failing, app>>
    /\ UNCHANGED chat_history
    /\ RingUnchanged

\* ------------------------------------------------------ specifications
\* the handshake that registers, and the cleanup
Session(c) ==
    \/ \E u \in Users : HelloDuplicate(c, u)
    \/ \E u \in Users : HelloOk(c, u)
    \/ Welcome(c)
    \/ PresenceSync(c)
    \/ CleanupStart(c)
    \/ CleanupSync(c)
    \/ CleanupFinish(c)

\* the handshakes that are rejected before register
Rejected(c) ==
    \/ HandshakeAbort(c)
    \/ HelloBadKey(c)
    \/ RejectClose(c)
    \/ \E u \in Users : HelloBanned(c, u)
    \/ BannedRecord(c)

Presenter(c) ==
    \/ PresenterGranted(c)
    \/ PresenterRevoked(c)

Chatting(c) ==
    \/ \E raw \in RawChoices : Chat(c, raw)
    \/ ChatSend(c)

Watcher ==
    \/ HbRun
    \/ HbBroadcast

Kick ==
    \/ \E u \in Names : FdStart(u)
    \/ FdUnregister
    \/ FdSync
    \/ FdFinish

Relays ==
    \/ \E a \in SessionAddrs, u \in Users : VideoRegister(a, u)
    \/ \E a \in SessionAddrs, u \in Users : AudioRegister(a, u)

\* sessions, the presenter role, the watcher
Next ==
    \/ \E c \in Conns : Session(c)
    \/ \E c \in Conns : Presenter(c)
    \/ Watcher
    \/ LongPause

Spec == Init /\ [][Next]_vars

\* handshakes of every kind, kicks, unban, relay registrations
NextAdmin ==
    \/ \E c \in Conns : Session(c)
    \/ \E c \in Conns : Rejected(c)
    \/ Kick
    \/ \E u \in Users : UnbanUser(u)
    \/ Relays

SpecAdmin == Init /\ [][NextAdmin]_vars

\* sessions, chat, the watcher
NextChat ==
    \/ \E c \in Conns : Session(c)
    \/ \E c \in Conns : Chatting(c)
    \/ Watcher
    \/ LongPause

SpecChat == Init /\ [][NextChat]_vars

\* sessions, heartbeats, the clock in heartbeat intervals, the watcher
NextWatch ==
    \/ \E c \in Conns : Session(c)
    \/ \E c \in Conns : Heartbeat(c)
    \/ Tick
    \/ Watcher

SpecWatch == Init /\ [][NextWatch]_vars

\* the same, where a task that has not suspended runs on and the drains that
\* the watcher's broadcast gathers complete
SpecWatchLive ==
    /\ SpecWatch
    /\ WF_vars(NextWatch /\ cpu # NoTask)
    /\ WF_vars(HbBroadcast)

\* sessions, kicks and relay registrations, where a handler that is ready
\* to run is run: the drains and the remove_user tasks its cleanup awaits
\* complete, and a task that has not suspended runs on
NextCleanup ==
    \/ \E c \in Conns : Session(c)
    \/ Kick
    \/ Relays

SpecCleanupLive ==
    /\ Init /\ [][NextCleanup]_vars
    /\ WF_vars(NextCleanup /\ cpu # NoTask)
    /\ \A c \in Conns : SF_vars(CleanupSync(c)) /\ SF_vars(CleanupFinish(c))

\* the rings under load
NextRing ==
    \/ \E u \in Users : RingChat(u)
    \/ \E u \in Users : RingBlocked(u)

SpecRing == Init /\ [][NextRing]_vars

\* the administrator's time limit
NextLimit ==
    \/ \E d \in DurationInputs : \E s \in StartInputs : SetTimeLimit(d, s)
    \/ Elapse

SpecLimit == Init /\ [][NextLimit]_vars

\* the framing of one control connection
NextStream ==
    \/ \E m \in Envelopes : StreamSend(m)
    \/ \E n \in 1 .. READ_SIZE : StreamRead(n)

SpecStream == Init /\ [][NextStream]_vars

\* media datagrams
NextMedia ==
    \/ \E i \in StreamIds : \E n \in SequenceNumbers : \E t \in Timestamps :
          \E p \in PayloadTypes :
             MediaSend([stream_id |-> i, sequence_number |-> n,
                        timestamp_ms |-> t, payload_type |-> p])
    \/ MediaReceive

SpecMedia == Init /\ [][NextMedia]_vars

\* sessions, the presenter role and the screen relay
NextScreen ==
    \/ \E c \in Conns : Session(c)
    \/ \E c \in Conns : Presenter(c)
    \/ ScreenRelay

SpecScreen == Init /\ [][NextScreen]_vars

\* the audio relay
NextAudio ==
    \/ \E a \in Addrs, u \in Names : AudioRegister(a, u)
    \/ \E a \in Addrs, n \in ChunkSizes : AudioDatagram(a, n)
    \/ AudioEnqueue
    \/ \E u \in Names : AudioRemoveUser(u)
    \/ MixTick

SpecAudio == Init /\ [][NextAudio]_vars

\* one sender and one listener of the audio relay, the sender's datagrams
\* arriving faster than the mixer drains them
NextJitter ==
    \/ AudioRegister("udp1", "alice")
    \/ AudioRegister("udp2", "bob")
    \/ \E n \in ChunkSizes : AudioFlood("udp1", n)
    \/ AudioEnqueue
    \/ MixTick

SpecJitter == Init /\ [][NextJitter]_vars

\* sessions, the presenter role, the watcher, and the shutdown
NextShutdown ==
    \/ \E c \in Conns : Session(c)
    \/ \E c \in Conns : Presenter(c)
    \/ Watcher
    \/ LongPause
    \/ \E reason \in ShutdownReasons : DisconnectAll(reason)
    \/ DisconnectAllReturn

SpecShutdown == Init /\ [][NextShutdown]_vars

\* sessions and the presenter role while sends fail
NextFaulty ==
    \/ \E c \in Conns : Session(c)
    \/ \E c \in Conns : Presenter(c)
    \/ \E c \in Conns : SendFails(c)
    \/ \E c \in Conns : SendRecovers(c)

SpecFaulty == Init /\ [][NextFaulty]_vars

\* the user whose client opens connection c
UserOf(c) == IF c = 1 THEN "alice" ELSE IF c = 2 THEN "bob" ELSE Ghost

\* three sessions of three users, the clock and the watcher
NextEvict ==
    \/ \E c \in Sockets : HelloOk(c, UserOf(c))
    \/ \E c \in Sockets : Welcome(c)
    \/ \E c \in Sockets : PresenceSync(c)
    \/ \E c \in Sockets : CleanupStart(c)
    \/ \E c \in Sockets : CleanupSync(c)
    \/ \E c \in Sockets : CleanupFinish(c)
    \/ Watcher
    \/ LongPause

SpecEvict == Init /\ [][NextEvict]_vars

\* three sessions of three users that ask for the presenter role, the clock
\* and the watcher
NextOrder ==
    \/ \E c \in Sockets : HelloOk(c, UserOf(c))
    \/ \E c \in Sockets : Welcome(c)
    \/ \E c \in Sockets : PresenceSync(c)
    \/ \E c \in Sockets : PresenterGranted(c)
    \/ Watcher
    \/ LongPause

SpecOrder == Init /\ [][NextOrder]_vars

\* the client application: join, leave, connection loss, the reconnect
\* worker, time limit statuses and their watches
NextClient ==
    \/ UiJoin
    \/ ConnectOk
    \/ ConnectFails
    \/ ControlDisconnect
    \/ UiLeave
    \/ WorkerWake
    \/ WorkerStart
    \/ WorkerCancelled
    \/ \E status \in StatusInputs : OnTimeLimit(status)
    \/ \E i \in Watches : WatchWake(i)
    \/ \E i \in Watches : WatchExpire(i)
    \/ \E i \in Watches : WatchCancelled(i)
    \/ AppTick

SpecClient == Init /\ [][NextClient]_vars

\* the client application with a server that accepts every connection: a
\* connect() that was started returns, and the reconnect worker is run when
\* its sleep is over, when it is running and when it was cancelled
NextReconnect ==
    \/ UiJoin
    \/ ConnectOk
    \/ ControlDisconnect
    \/ UiLeave
    \/ WorkerWake
    \/ WorkerStart
    \/ WorkerCancelled
    \/ \E status \in StatusInputs : OnTimeLimit(status)
    \/ \E i \in Watches : WatchWake(i)
    \/ \E i \in Watches : WatchExpire(i)
    \/ \E i \in Watches : WatchCancelled(i)
    \/ AppTick

SpecReconnectLive ==
    /\ Init /\ [][NextReconnect]_vars
    /\ WF_vars(ConnectOk)
    /\ WF_vars(WorkerWake)
    /\ WF_vars(WorkerStart)
    /\ WF_vars(WorkerCancelled)

\* the video relay
NextVideo ==
    \/ \E a \in Addrs, d \in VideoInputs : VideoDatagramReceived(a, d)
    \/ \E u \in Names : VideoRemoveUser(u)

SpecVideo == Init /\ [][NextVideo]_vars

\* ------------------------------------------------------------- claims
\* the connection whose handler registered the connected client u
WriterOf(u) == clients[u].writer

AllWriters == {WriterOf(u) : u \in DOMAIN clients}

\* a step of the watcher that evicts
Eviction == hb.pc = "sleep" /\ hb'.pc = "bcast"

\* C1: in every reachable state the presenter is none or the username of a
\* currently connected client.
C1_PresenterConnected == presenter = None \/ presenter \in DOMAIN clients

\* C2: a PRESENTER_GRANTED request of the current holder is granted (it is
\* broadcast) and changes neither the presenter nor the client map; a request
\* of anyone else while the role is held is refused and changes nothing.
C2_GrantCompareAndSet ==
    [][\A c \in Conns :
          (PresenterGranted(c) /\ presenter # None)
              => /\ presenter' = presenter
                 /\ clients' = clients
                 /\ (wire'.action = "presenter_granted")
                        <=> (conn[c].username = presenter)]_vars

\* C7: a connection whose client was already removed by a kick or an eviction
\* triggers no USER_LEFT when it closes.
C7_NoSecondLeave ==
    [][\A c \in Conns :
          (/\ CleanupStart(c)
           /\ \/ conn[c].username \notin DOMAIN clients
              \/ WriterOf(conn[c].username) # c)
              => wire'.action # "user_left"]_vars

\* C9: the session state after the watcher evicts client u equals the state
\* after unregister(u): u removed, the presenter cleared if u held it, u's
\* presence entry dropped, u's transport closed, a leave event appended.
C9_EvictionIsUnregister ==
    [][\A u \in Users :
          (Eviction /\ Stale = {u})
              => LET r == Unregister(u, "user_left")
                 IN /\ clients' = r.clients
                    /\ presenter' = r.presenter
                    /\ presence_cache' = r.presence_cache
                    /\ writer_closed' = CloseWriters(r.closed)
                    /\ event_log' = r.event_log]_vars

\* a HELLO frame with a valid key that names u, handled on connection c
Hello(c, u) == HelloBanned(c, u) \/ HelloDuplicate(c, u) \/ HelloOk(c, u)

\* C3: a HELLO for a username that is already connected fails with the
\* duplicate error and the new connection is closed; the client map, the
\* existing client's transport, the presenter and the event log are unchanged
\* and neither USER_JOINED nor USER_LEFT is sent.
C3_DuplicateHelloRejected ==
    [][\A c \in Conns, u \in Users :
          (Hello(c, u) /\ u \in DOMAIN clients)
              => /\ conn'[c] = Closed("duplicate")
                 /\ writer_closed'[c]
                 /\ clients' = clients
                 /\ writer_closed'[WriterOf(u)] = writer_closed[WriterOf(u)]
                 /\ presenter' = presenter
                 /\ event_log' = event_log
                 /\ wire'.action \notin {"user_joined", "user_left"}]_vars

\* a duplicate HELLO was rejected while the role of presenter was held
C3_Witness ==
    \E c \in Conns :
        /\ conn[c].error = "duplicate"
        /\ presenter \in DOMAIN clients
        /\ ~writer_closed[WriterOf(presenter)]

\* C4: while u is in the ban set u is not connected and register(u) fails with
\* the permission error; a HELLO of u creates no client; the ban set loses a
\* member only by unban_user; a user neither banned nor connected registers.
C4_BannedCannotRegister ==
    /\ [](\A u \in Users :
            /\ u \in banned
                  => u \notin DOMAIN clients /\ RegisterOutcome(u) = "banned"
            /\ (u \notin banned /\ u \notin DOMAIN clients)
                  => RegisterOutcome(u) = "ok")
    /\ [][/\ \A c \in Conns, u \in banned :
               Hello(c, u) => clients' = clients /\ wire'.action = "kicked"
          /\ \/ banned \subseteq banned'
             \/ \E u \in Users : UnbanUser(u)]_vars

\* the HELLO of a kicked user was refused and recorded while the ban stood
C4_Witness ==
    \E u \in banned :
        /\ u \notin DOMAIN clients
        /\ \E i \in DOMAIN event_log : event_log[i] = Event("user_blocked", u)

\* C5: a force_disconnect(u) called on a connected u returns true, and when it
\* returns u is not connected, u is banned, a user_kicked event of u is in the
\* event log and neither relay has a registration of u.
C5_KickConnected ==
    [][(fd.pc # "idle" /\ fd'.pc = "idle")
          => /\ fd'.result
             /\ fd.user \notin DOMAIN clients'
             /\ fd.user \in banned'
             /\ \E i \in DOMAIN event_log' :
                    event_log'[i] = Event("user_kicked", fd.user)
             /\ \A a \in Addrs :
                    video_clients'[a] # fd.user /\ audio_clients'[a] # fd.user]_vars

\* C6: force_disconnect(u) for a username that is not connected returns false
\* at once; the client map, the ban set, the event log and the relays are
\* unchanged and nothing is sent.
C6_KickAbsentIsNoop ==
    [][\A u \in Names :
          (FdStart(u) /\ u \notin DOMAIN clients)
              => /\ fd' = [pc |-> "idle", user |-> u, result |-> FALSE]
                 /\ clients' = clients
                 /\ banned' = banned
                 /\ event_log' = event_log
                 /\ presenter' = presenter
                 /\ writer_closed' = writer_closed
                 /\ wire'.to = {}
                 /\ wire'.action \notin {"user_left", "presence_sync"}
                 /\ video_clients' = video_clients
                 /\ audio_clients' = audio_clients]_vars

\* force_disconnect of a name nobody ever used has returned false while
\* clients are connected and a relay holds a registration
C6_Witness ==
    /\ fd = [pc |-> "idle", user |-> Ghost, result |-> FALSE]
    /\ DOMAIN clients # {}
    /\ \E a \in Addrs : video_clients[a] # None

\* C8: a run of the watcher that evicts removes exactly the clients whose last
\* heartbeat is older than twice HEARTBEAT_TIMEOUT (one at exactly twice the
\* timeout stays) and needs no step of their connections; for each evicted
\* client a USER_LEFT naming it is eventually broadcast to every client that
\* is connected then.
C8_WatcherEvictsStale ==
    /\ [][Eviction
            => /\ \A u \in DOMAIN clients :
                     (u \notin DOMAIN clients')
                        <=> (now - clients[u].last_seen > HEARTBEAT_TIMEOUT * 2)
               /\ conn' = conn]_vars
    /\ \A u \in Users :
          (hb.pc = "bcast" /\ \E i \in DOMAIN hb.stale : hb.stale[i] = u)
              ~> (/\ wire.call = "broadcast"
                  /\ wire.action = "user_left"
                  /\ wire.about = u
                  /\ wire.to = AllWriters)

\* USER_LEFT for a client that never closed its connection has been sent to
\* a remaining client, who is at exactly twice the timeout and connected
C8_Witness ==
    /\ wire.action = "user_left"
    /\ wire.to # {}
    /\ \E c \in Conns : conn[c].pc = "active" /\ conn[c].username = wire.about
    /\ wire.about \notin DOMAIN clients
    /\ \E v \in DOMAIN clients : now - clients[v].last_seen = HEARTBEAT_TIMEOUT * 2

\* the string entries of a recipients field, as received
Listed(raw) == {raw.items[i].text : i \in {j \in DOMAIN raw.items : raw.items[j].isstr}}

\* the string entries without the whitespace around them, blank ones dropped
Named(raw) == {Strip(t) : t \in Listed(raw)} \ {<< >>}

WritersOf(S) == {WriterOf(v) : v \in S \cap DOMAIN clients}

\* C10, as stated: a CHAT_MESSAGE whose recipients field is absent or an empty
\* list goes to every connected client; one from A with recipients R goes to
\* no connected client outside R and A.
C10_RoutedAsReceived ==
    wire.action = "chat_message"
        => IF ~wire.raw.islist \/ wire.raw.items = << >>
           THEN wire.to = AllWriters
           ELSE wire.to \subseteq
                   WritersOf({v \in Users : <<v>> \in Listed(wire.raw)}
                                \cup {wire.about})

\* C10, amended: with R the string entries of the recipients field, stripped of
\* surrounding whitespace and the blank ones dropped, a CHAT_MESSAGE with R
\* empty is broadcast to every connected client; otherwise each send goes to
\* at most one client, a connected member of R or the sender.
C10_RoutedAsNormalised ==
    wire.action = "chat_message"
        => IF Named(wire.raw) = {}
           THEN wire.call = "broadcast" /\ wire.to = AllWriters
           ELSE /\ wire.call = "send_to"
                /\ Cardinality(wire.to) <= 1
                /\ wire.to \subseteq
                      WritersOf({v \in Users : <<v>> \in Named(wire.raw)}
                                   \cup {wire.about})

\* a direct message has been sent while a client that is neither a recipient
\* nor the sender is connected
C10_Witness ==
    /\ wire.action = "chat_message"
    /\ wire.call = "send_to"
    /\ wire.to # {}
    /\ \E v \in DOMAIN clients :
          /\ <<v>> \notin Named(wire.raw)
          /\ v # wire.about
          /\ WriterOf(v) \notin wire.to

\* a retained chat entry that joiner j may see
VisibleTo(m, j) ==
    \/ m.recipients = << >>
    \/ m.sender = j
    \/ j \in {m.recipients[i] : i \in DOMAIN m.recipients}

LastN(s, n) == IF Len(s) <= n THEN s ELSE SubSeq(s, Len(s) - n + 1, Len(s))

\* C13: the chat history never holds more than 200 entries and the event log
\* never more than 1000; every append leaves in each ring the most recent
\* entries in append order, the new entry last (it is never refused), the
\* oldest dropped first.
C13_BoundedFifoRings ==
    /\ [](Len(chat_history) <= 200 /\ Len(event_log) <= 1000)
    /\ [][/\ \A u \in Users :
               RingChat(u)
                  => /\ chat_history'
                          = LastN(Append(chat_history,
                                         [sender |-> u, recipients |-> << >>]), 200)
                     /\ event_log'
                          = LastN(Append(event_log, Event("chat_message", u)), 1000)
          /\ \A u \in Users :
               RingBlocked(u)
                  => event_log'
                        = LastN(Append(event_log, Event("user_blocked", u)), 1000)]_vars

\* both rings are full and have dropped entries
C13_Witness ==
    /\ Len(chat_history) = 200
    /\ Len(event_log) = 1000
    /\ now > 1000
    /\ event_log[1000].type = "user_blocked"
    /\ chat_history[1].sender # chat_history[200].sender

\* unregister(u) returned false and left the session state as it was
UnregisterIsNoop(u, event_type) ==
    LET r == Unregister(u, event_type)
    IN /\ ~r.removed
       /\ r.clients = clients
       /\ r.presenter = presenter
       /\ r.presence_cache = presence_cache
       /\ r.event_log = event_log
       /\ r.closed = {}

\* C14: unregister of a username that is not connected returns false and
\* leaves the event log, the connected set, the presenter and the presence
\* cache unchanged, so the cleanup of a connection whose user was already
\* removed changes none of them and broadcasts nothing; once an unregister
\* has removed a username, a second unregister of it is such a no-op.
C14_UnregisterAbsentIsNoop ==
    /\ [](\A u \in Names \ DOMAIN clients :
            \A t \in {"user_left", "user_kicked"} : UnregisterIsNoop(u, t))
    /\ [][/\ \A c \in Conns :
               (CleanupStart(c) /\ conn[c].username \notin DOMAIN clients)
                  => /\ UNCHANGED <<clients, presenter, presence_cache, event_log>>
                     /\ wire' = NoWire
          /\ \A u \in Users :
               (u \in DOMAIN clients /\ u \notin DOMAIN clients')
                  => UnregisterIsNoop(u, "user_left")']_vars

\* the cleanup of a kicked user's connection has run its unregister
C14_Witness ==
    \E c \in Conns :
        /\ conn[c].pc = "cl_relay"
        /\ wire = NoWire
        /\ conn[c].username \notin DOMAIN clients
        /\ \E i \in DOMAIN event_log :
              event_log[i] = Event("user_kicked", conn[c].username)
        /\ \A i \in DOMAIN event_log :
              event_log[i] # Event("user_left", conn[c].username)

\* the handler of connection c is on a rejection path of the handshake
Rejecting(c) == conn[c].pc \in {"reject_drain", "ban_drain"}

\* this step is taken by the handler of c on a rejection path
RejectionStep(c) ==
    /\ conn[c].pc \in {"hello", "reject_drain", "ban_drain"}
    /\ conn'[c].pc \in {"reject_drain", "ban_drain", "closed"}
    /\ conn'[c].pc # conn[c].pc

\* C15: a rejected handshake (no HELLO, key mismatch, banned username)
\* creates no session state: the connection goes from awaiting HELLO to
\* closed without ever being a connected client, the connected set, the
\* presenter, the presence cache, the ban list and the chat history stay as
\* they are, and nothing is sent to an already connected client; a key
\* mismatch writes ERROR and a banned username KICKED to the new connection
\* only, and the banned attempt adds one user_blocked event.
C15_RejectedHandshakeLeavesNoState ==
    /\ [](\A c \in Conns :
            Rejecting(c) => /\ \A u \in DOMAIN clients : clients[u].writer # c
                            /\ conn[c].username = None)
    /\ [][\A c \in Conns :
            RejectionStep(c)
               => /\ UNCHANGED <<clients, presenter, presence_cache, banned,
                                 chat_history>>
                  /\ \A u \in DOMAIN clients' : clients'[u].writer # c
                  /\ wire'.to \subseteq {c}
                  /\ conn'[c].pc = "reject_drain"
                        => wire'.to = {c} /\ wire'.action = "error"
                  /\ conn'[c].pc = "ban_drain"
                        => wire'.to = {c} /\ wire'.action = "kicked"
                  /\ conn'[c].pc = "closed"
                        => /\ wire' = NoWire
                           /\ writer_closed'[c]
                           /\ conn'[c].username = None
                  /\ IF conn[c].pc = "ban_drain"
                     THEN \E u \in conn[c].held :
                             event_log' = RecordEvent(event_log, "user_blocked", u)
                     ELSE UNCHANGED event_log]_vars

\* a key mismatch was answered on the new connection while another client
\* is connected
C15_Witness ==
    \E c \in Conns :
        /\ conn[c].pc = "reject_drain"
        /\ wire.action = "error"
        /\ wire.to = {c}
        /\ \E u \in DOMAIN clients : clients[u].writer # c

\* C16: a connection that has registered and has not yet been sent its
\* WELCOME is not among the recipients of a PRESENCE_SYNC or PRESENCE_UPDATE
\* that lists its username.
C16_WelcomeBeforePresence ==
    \A c \in Conns :
        conn[c].pc = "joined"
           => ~ /\ wire.action \in {"presence_sync", "presence_update"}
                /\ c \in wire.to
                /\ conn[c].username \in wire.list

\* C17: set_time_limit with a duration of d > 0 minutes and a start
\* timestamp s leaves an active limit whose duration is max(60, 60 * d)
\* seconds and whose end is s plus that duration, and returns a status that
\* is active, ends there and gives the duration in whole seconds (30 minutes
\* from 1000 give 1800 and 2800); with d absent, zero or negative it clears
\* the limit and returns a status that is not active and has no duration,
\* no remaining time and no end.
C17_TimeLimitSetAndClear ==
    [][\A d \in DurationInputs : \A s \in StartInputs :
         SetTimeLimit(d, s)
            => LET tl == time_limit'.limit
                   st == time_limit'.status[1]
               IN /\ (d # Absent /\ d[1] > 0 /\ s # Absent)
                       => /\ tl.duration
                               = Some(Max(Seconds(60), (d[1] * 60 * 10) \div 100))
                          /\ tl.end = Some(Seconds(s[1]) + tl.duration[1])
                          /\ st.is_active
                          /\ st.end_timestamp = tl.end
                          /\ st.duration_seconds = Some(IntRound(tl.duration[1]))
                          /\ (tl.duration[1] % 10 = 0)
                                => Seconds(st.duration_seconds[1]) = tl.duration[1]
                          /\ (d = Some(3000) /\ s = Some(1000))
                                => /\ st.duration_seconds = Some(1800)
                                   /\ st.end_timestamp = Some(Seconds(2800))
                  /\ (d = Absent \/ d[1] <= 0)
                       => /\ tl = NoLimit
                          /\ ~st.is_active
                          /\ st.duration_seconds = Absent
                          /\ st.remaining_seconds = Absent
                          /\ st.end_timestamp = Absent]_vars

\* a limit below one minute was set and floored, and a limit was cleared
\* after it had been set
C17_Witness ==
    /\ time_limit.limit.duration = Some(Seconds(60))
    /\ time_limit.limit.end = Some(Seconds(1060))
    /\ time_limit.status # Absent
    /\ time_limit.status[1].is_active
    /\ \E i \in DOMAIN event_log : event_log[i].type = "time_limit_cleared"

\* the bytes the reader has been given so far
Delivered ==
    LET all == EncodeAll(stream.sent)
    IN SubSeq(all, 1, Len(all) - Len(stream.pending))

\* C18: decode_control_stream consumes exactly the complete frames: the
\* bytes of messages m1 .. mk followed by a proper prefix p of a further
\* frame decode to (m1 .. mk, p); one encoded message decodes to itself with
\* nothing left; decoding the leftover again gives no message and the same
\* leftover; feeding the bytes in chunks and carrying the leftover gives
\* what decoding all of them at once gives.
C18_DecodeConsumesCompleteFrames ==
    LET whole == DecodeControlStream(Delivered)
        k == Len(stream.received)
        again == DecodeControlStream(stream.buffer)
    IN /\ ~whole.raised
       /\ whole.messages = stream.received
       /\ whole.rest = stream.buffer
       /\ k <= Len(stream.sent)
       /\ stream.received = SubSeq(stream.sent, 1, k)
       /\ Delivered = EncodeAll(stream.received) \o stream.buffer
       /\ stream.buffer # << >>
            => /\ k < Len(stream.sent)
               /\ Len(stream.buffer) < Len(EncodeControlMessage(stream.sent[k + 1]))
       /\ again.messages = << >>
       /\ again.rest = stream.buffer
       /\ \A i \in DOMAIN stream.sent :
             DecodeControlStream(EncodeControlMessage(stream.sent[i]))
                = [messages |-> <<stream.sent[i]>>, rest |-> << >>,
                   raised |-> FALSE]

\* after a complete message, the frame that follows, longer than 255 bytes,
\* has been cut inside its length prefix
C18_Witness ==
    /\ stream.received = <<HeartbeatEnvelope>>
    /\ Len(stream.sent) = 2
    /\ stream.sent[2] = ChatOf(LongText)
    /\ Len(stream.buffer) \in 1 .. 3

\* C19: the header unpacked from a datagram is the header that was packed
\* into it: stream id, sequence number, timestamp and payload type are the
\* same.
C19_HeaderRoundTrip ==
    media.restored # Absent => media.restored = media.header

\* C20: a screen relay connection whose handshake names a username that is
\* not the current presenter is closed without any SCREEN_CONTROL or
\* SCREEN_FRAME being sent to a participant.
C20_RejectedScreenSendsNothing ==
    [][\A u \in Names :
         (ScreenHandshake(u) /\ presenter # u)
            => /\ screen'.pc = "closed"
               /\ ~ /\ wire'.action \in {"screen_control", "screen_frame"}
                     /\ wire'.to # {}]_vars

\* the sum of the first chunks of the users of us, sample by sample
RECURSIVE SumOfHeads(_, _)
SumOfHeads(us, i) ==
    IF us = {} THEN 0
    ELSE LET u == CHOOSE v \in us : TRUE
             c == Head(audio.buffers[u])
         IN (IF i <= Len(c) THEN c[i] ELSE 0) + SumOfHeads(us \ {u}, i)

\* C21: a mix tick takes at most one chunk, the oldest, from each user's
\* buffer; every datagram it sends goes to a registered address, one per
\* address, and carries the mix of the chunks taken this tick from the users
\* other than the one the address is registered to; a user without a
\* buffered chunk adds nothing to it; when nobody has a buffered chunk
\* nothing is sent.
C21_MixExcludesOwnAudio ==
    [][MixTick
         => LET us == {u \in Names : audio.buffers[u] # << >>}
            IN /\ \A u \in Names :
                     \/ audio'.buffers[u] = audio.buffers[u]
                     \/ /\ u \in us
                        /\ audio'.buffers[u] = Tail(audio.buffers[u])
               /\ us = {} => udp' = {}
               /\ \A d \in udp' :
                     LET o == us \ {audio_clients[d.to]}
                     IN /\ audio_clients[d.to] # None
                        /\ \A u \in us : audio'.buffers[u] = Tail(audio.buffers[u])
                        /\ d.data.over = (IF o = {} THEN 1 ELSE Cardinality(o))
                        /\ \A i \in DOMAIN d.data.sum :
                              d.data.sum[i] = SumOfHeads(o, i)
                        /\ \A u \in us :
                              Len(Head(audio.buffers[u])) <= Len(d.data.sum)
               /\ \A d, e \in udp' : d.to = e.to => d = e]_vars

\* a tick has mixed two other users' chunks for a third user who had a
\* chunk of their own drained, with a second chunk left in a buffer
C21_Witness ==
    /\ \E d \in udp : d.server = "audio" /\ d.data.over = 2
                         /\ d.data.sum = <<110, 110>>
                         /\ audio_clients[d.to] = "alice"
    /\ \E d \in udp : d.server = "audio" /\ d.data.sum = <<101, 101>>
    /\ \E u \in Names : audio.buffers[u] # << >>

\* the datagram is at least a header long and its last header field is VIDEO
TaggedVideo(data) ==
    /\ Len(data) >= 16
    /\ SubSeq(data, 13, 16) = <<0, 0, 0, 1>>

\* C22: the video relay sends something only for a datagram that is tagged
\* VIDEO and comes from a registered address, and then the same bytes, to
\* every other registered address and not to the sender; a datagram from an
\* address that is not registered is at most a registration of that address
\* and is not forwarded.
C22_VideoRelayedToOthersOnly ==
    [][\A a \in Addrs : \A data \in VideoInputs :
         VideoDatagramReceived(a, data)
            => /\ udp' # {} => video_clients[a] # None /\ TaggedVideo(data)
               /\ \A d \in udp' : /\ d.data = data
                                   /\ d.to # a
                                   /\ video_clients[d.to] # None
               /\ (video_clients[a] # None /\ TaggedVideo(data))
                     => {d.to : d \in udp'}
                           = {t \in Addrs \ {a} : video_clients[t] # None}
               /\ \A d, e \in udp' : d.to = e.to => d = e
               /\ video_clients[a] = None
                     => /\ udp' = {}
                        /\ \A t \in Addrs \ {a} :
                              video_clients'[t] = video_clients[t]
               /\ video_clients[a] # None => UNCHANGED video_clients]_vars

\* a video frame was relayed to the two other registered addresses
C22_Witness ==
    /\ Cardinality(udp) = 2
    /\ \A d \in udp : d.server = "video" /\ TaggedVideo(d.data)
    /\ \A a \in Addrs : video_clients[a] # None

\* C23: disconnect_all(reason) writes KICKED with the reason to every
\* connected client and closes its writer; when it returns nobody is
\* connected, the presence cache is empty and there is no presenter; the
\* cleanup of a handler whose connection it closed broadcasts no USER_LEFT.
C23_ShutdownDisconnectsEveryone ==
    [][/\ \A reason \in ShutdownReasons :
            DisconnectAll(reason)
               => \A u \in DOMAIN clients :
                     /\ clients[u].writer \in wire'.to
                     /\ wire'.action = "kicked"
                     /\ wire'.reason = reason
                     /\ writer_closed'[clients[u].writer]
       /\ (shutdown.pc # "returned" /\ shutdown'.pc = "returned")
            => /\ clients' = << >>
               /\ presence_cache' = << >>
               /\ presenter' = None
       /\ \A c \in shutdown.closed :
            CleanupStart(c) => wire'.action # "user_left"]_vars

\* C26: revoke_presenter(u) for a u that does not hold the presenter role
\* changes nothing: the presenter, the is_presenter flag of every client and
\* the event log stay as they were.
C26_RevokeByNonHolderIsNoop ==
    [][\A c \in Conns :
         (PresenterRevoked(c) /\ presenter # conn[c].username)
            => /\ presenter' = presenter
               /\ \A v \in DOMAIN clients :
                     clients'[v].is_presenter = clients[v].is_presenter
               /\ event_log' = event_log]_vars

\* C27: PRESENTER_GRANTED about u is broadcast only by a request that made or
\* found u the presenter, so u is the presenter when it is sent; a request by
\* a user who is not connected or while another user holds the role sends
\* nothing and changes nothing; a PRESENTER_REVOKED request is always
\* broadcast.
C27_GrantBroadcastOnlyOnSuccess ==
    [][\A c \in Conns :
         LET u == conn[c].username
         IN /\ PresenterGranted(c)
                 => /\ wire'.action = "presenter_granted"
                         => /\ wire'.about = u
                            /\ presenter' = u
                            /\ u \in DOMAIN clients'
                    /\ (u \notin DOMAIN clients \/ presenter \notin {None, u})
                         => /\ wire' = NoWire
                            /\ UNCHANGED sm_vars
                    /\ (u \in DOMAIN clients /\ presenter \in {None, u})
                         => /\ wire'.call = "broadcast"
                            /\ wire'.action = "presenter_granted"
            /\ PresenterRevoked(c)
                 => /\ wire'.call = "broadcast"
                    /\ wire'.action = "presenter_revoked"
                    /\ wire'.about = u
                    /\ wire'.to = {clients[v].writer : v \in DOMAIN clients}]_vars

\* PRESENTER_GRANTED about the presenter was broadcast to two clients
C27_Witness ==
    /\ wire.action = "presenter_granted"
    /\ wire.about = presenter
    /\ Cardinality(wire.to) = 2

C30_RecipientsAsOfMutation ==
    [][/\ \A c \in Sockets :
            (HelloOk(c, UserOf(c)) \/ CleanupStart(c))
               => (wire'.call = "broadcast"
                     => LET excluded == IF wire'.action = "user_joined"
                                        THEN {wire'.about} ELSE {}
                        IN wire'.to = {clients'[u].writer :
                                          u \in (DOMAIN clients') \ excluded})
       /\ (hb.pc = "bcast" /\ hb'.pc = "bcast")
            => DOMAIN clients' = DOMAIN clients]_vars

\* C24: once _leave_session has run (the UI was last told "idle"), whether
\* the client was connected, connecting or waiting to retry, should_reconnect
\* is false and no reconnect task is scheduled, and the next session is
\* started by a join of the UI.
C24_LeavePreemptsReconnect ==
    /\ [](app.status = "idle"
            => /\ ~app.should_reconnect
               /\ ~app.reconnect_task
               /\ app.worker \notin {"sleeping", "running"})
    /\ [][(app.status = "idle" /\ app'.status = "connecting") => UiJoin]_vars

\* C25: the client leaves with the reason 'Meeting time limit reached' only
\* while it has a session and the time limit status it holds is active and
\* due (flagged expired, or its end reached); a watch that was cancelled or
\* replaced before its expiry makes the client leave no session.
C25_TimeLimitLeaveOnlyWhenDue ==
    [][(/\ app'.leaves = app.leaves + 1
        /\ app'.leave_reason = TIME_LIMIT_LEAVE_REASON)
          => /\ app.client \/ app.connected
             /\ app.time_limit # Absent
             /\ app.time_limit[1].is_active
             /\ \/ app.time_limit[1].is_expired
                \/ app.time_limit[1].end <= app.clock]_vars

\* C31: a client is sent the reports of two changes of the session in the
\* order in which the changes were applied. Taken for two consecutive
\* emissions: while the watcher still has to report evictions it has applied,
\* a broadcast that reports a later change (a join, a grant of the presenter
\* role) reaches no client that the watcher's next USER_LEFT reaches.
C31_EmissionFollowsMutationOrder ==
    [][(/\ hb.pc = "bcast"
        /\ hb' # hb
        /\ wire.call = "broadcast"
        /\ wire.action \in {"user_joined", "presenter_granted"})
          => wire.to \cap wire'.to = {}]_vars

\* C32: the relays accept no registration that names a banned username: a
\* step that registers an address with the video or the audio relay registers
\* it under a username that is not in the ban set.
C32_RelaysRefuseBannedUsers ==
    [][\A a \in Addrs :
          /\ video_clients'[a] # video_clients[a]
                => video_clients'[a] \notin banned
          /\ audio_clients'[a] # audio_clients[a]
                => audio_clients'[a] \notin banned]_vars

\* C33: no user's audio buffer ever holds more than 10 chunks; an _enqueue
\* leaves in the buffer the most recent chunks in arrival order, the new
\* chunk last and the oldest dropped first; the mixer takes the oldest chunk
\* of a buffer and leaves the others in their order.
C33_JitterBufferBounded ==
    /\ [](\A u \in Names : Len(audio.buffers[u]) <= MAX_BUFFER_FRAMES)
    /\ [][(audio.pending # << >> /\ audio'.pending = Tail(audio.pending))
            => LET t == Head(audio.pending)
               IN audio'.buffers[t.username] =
                     LastN(Append(audio.buffers[t.username], t.samples),
                           MAX_BUFFER_FRAMES)]_vars
    /\ [][\A u \in Names :
             audio'.buffers[u] # audio.buffers[u]
                => \/ /\ audio.pending # << >>
                      /\ Head(audio.pending).username = u
                      /\ audio'.pending = Tail(audio.pending)
                   \/ /\ audio.buffers[u] # << >>
                      /\ audio'.pending = audio.pending
                      /\ audio'.buffers[u] = Tail(audio.buffers[u])
                      /\ \A d \in udp' :
                            audio_clients[d.to] # u
                               => \A i \in DOMAIN Head(audio.buffers[u]) :
                                     d.data.sum[i] = Head(audio.buffers[u])[i]]_vars

\* the sender's buffer is full, its oldest chunk is an empty one and its
\* newest is not, and another chunk is about to be enqueued
C33_Witness ==
    /\ Len(audio.buffers["alice"]) = MAX_BUFFER_FRAMES
    /\ Head(audio.buffers["alice"]) = << >>
    /\ audio.buffers["alice"][MAX_BUFFER_FRAMES] # << >>
    /\ audio.pending # << >>

C35_ReconnectsAfterLoss ==
    (app.status = "reconnecting") ~> (app.connected \/ app.status = "idle")

\* C36: the cleanup of connection c unregisters only the client that c
\* registered: when it removes a client or broadcasts USER_LEFT, the client
\* registered under its username was using c's writer.
C36_CleanupRemovesOwnRegistration ==
    [][\A c \in Conns :
          (/\ CleanupStart(c)
           /\ \/ DOMAIN clients' # DOMAIN clients
              \/ wire'.action = "user_left")
             => /\ conn[c].username \in DOMAIN clients
                /\ clients[conn[c].username].writer = c]_vars

\* C37: a SCREEN_FRAME is broadcast only while the user of the screen
\* connection it came from holds the presenter role.
C37_FramesOnlyFromPresenter ==
    [][(ScreenFrame /\ wire'.action = "screen_frame")
          => presenter = wire'.about]_vars

\* C38: the participants list of a USER_JOINED, USER_LEFT or PRESENCE_SYNC
\* broadcast names exactly the clients connected when it is emitted.
C38_ParticipantsAsOfEmission ==
    [][(/\ wire'.call = "broadcast"
        /\ wire'.action \in {"user_joined", "user_left", "presence_sync"})
          => wire'.list = DOMAIN clients']_vars

\* C39: no mix carries a chunk of a user whose remove_user has completed:
\* every user whose chunk a tick mixes into a datagram has an address
\* registered with the audio relay.
C39_NoAudioAfterRemoval ==
    [][(MixTick /\ udp' # {})
          => \A u \in Contributors(audio.buffers) :
                \E a \in Addrs : audio_clients[a] = u]_vars

\* C40: a force_disconnect(u) that found u connected (its KICKED notice was
\* queued and drained) has u in the ban set once its unregister has run,
\* and so when it returns.
C40_KickBansDespiteConcurrentClose ==
    [][(fd.pc = "kicked" /\ fd'.pc # "kicked") => fd.user \in banned']_vars

====
